---- MODULE Spec2Model ----
(***************************************************************************)
(* Model of the scheduling core of codex-orchestrator: the eligibility     *)
(* engine and ordering (app/scan.py), the per-repository work lock         *)
(* (app/locks.py) and the work-next dispatcher (app/main.py).              *)
(*                                                                         *)
(* Python strings are modelled as tuples of one-character strings, so that *)
(* lower(), strip(), the substring test and string comparison are computed *)
(* character by character.  Python values of varying type are tagged       *)
(* records [t |-> type, v |-> value].                                      *)
(***************************************************************************)
EXTENDS Integers, Sequences, FiniteSets, TLC

VARIABLES
    files,              \* working copy: front matter of tasks/*.md, in file-name order
    open_pr_titles,     \* titles of the open change requests on the host
    existing_branches,  \* local and remote branch names
    tasks,              \* the task dicts of the last load_tasks (mutated in place)
    elig,               \* result of the last list_eligible
    ordered,            \* result of the last order_tasks
    phase,              \* "input" | "loaded" | "scanned" | "ordered"
    lock_ino,           \* the lock file at <repo>.lock: 0 = no file, c = created by caller c
    ino_content,        \* content of the file each caller created last: 0 = empty, else a pid
    pc,                 \* position of each caller in its current call or request
    owner_pid,          \* release's local owner_pid of each caller: 0 = None
    result,             \* what each caller's last call returned
    alone,              \* history: the caller's current call has overlapped no other call
    trace,              \* history: the last calls that completed one after the other
    mode,               \* registry: the stored mode of the repository
    pid,                \* deployment: os.getpid() of the process that runs each caller
    rc_mode,            \* work-next: rc.mode as read by get_repo at the start of the request
    next_min,           \* work-next: report["next_task"], <<>> = None
    task_full,          \* work-next: the task dict found by the reload, <<>> = None
    did_scan,           \* history: the request has run scan_repo
    snap,               \* history: what the request's scan_repo read
    invoked,            \* history: the task dict the request in progress passed to
                        \*          Developer.work_task, and the stored mode at that moment
    unlinked,           \* history: the request has removed a lock file
    registry,           \* state/registry.json: the list "repos" of repo dicts
    now,                \* the clock that stamps created_at
    last_op,            \* history: the last registry request or webhook, what it
                        \*          dispatched, and the mode it read
    prs,                \* the host's pull requests: state, head sha, merged_at
    open_fresh,         \* the stored "open" ETag still matches the host's open list
    closed_fresh,       \* the stored "closed" ETag still matches the closed list
    reviewed_heads,     \* state/<id>.json: open.reviewed_heads
    last_seen,          \* state/<id>.json: closed.last_seen_merged_at, 0 is None
    cycle,              \* state/<id>.json: cycle
    last_poll,          \* history: what the last poll_repo call received and dispatched
    integrated_ever,    \* history: the entries for which an integration call has returned
    interval_call,      \* history: the last call of compute_next_interval and its result
    local_head,         \* working clone: the commit of each local branch, -1 = no branch
    remote_head,        \* origin: the commit of each remote branch, -1 = no branch
    checked_out,        \* working clone: the branch HEAD points to
    n_commits,          \* the number of commits created so far (the newest commit id)
    open_crs,           \* the host's open change requests: how many are open for
                        \*          each [head, title]
    last_dispatch,      \* history: what the last work_task or on_merge call did
    clock,              \* time.time(), in ticks of half a retry interval
    timed,              \* acquire(timeout): the locals and the history of the call
    listed,             \* history: list_all_branches returned in the last list_eligible
    rmw,                \* upsert_repo/patch_repo of each caller: position, request, and
                        \*          the reg it loaded
    expect,             \* history: the mode each caller's last returned request stored
    hook_reviewed       \* history: the heads sent to review by the webhook handler

envVars == <<files, open_pr_titles, existing_branches>>
scanLocals == <<tasks, elig, ordered, phase>>
scanVars == <<envVars, scanLocals>>
lockFile == <<lock_ino, ino_content>>
lockVars == <<lockFile, pc, owner_pid, result, alone, trace>>
workLocals == <<rc_mode, next_min, task_full, did_scan, snap, invoked, unlinked>>
regVars == <<registry, now, last_op>>
hostVars == <<prs, open_fresh, closed_fresh>>
pollHist == <<last_poll, integrated_ever, interval_call>>
pollVars == <<hostVars, reviewed_heads, last_seen, cycle, pollHist>>
gitVars == <<local_head, remote_head, checked_out, n_commits, open_crs, last_dispatch>>
timedVars == <<clock, timed>>
scanHist == <<listed>>
rmwVars == <<rmw, expect>>
hookHist == <<hook_reviewed>>
moreVars == <<timedVars, scanHist, rmwVars, hookHist>>
extVars == <<gitVars, moreVars>>
deployVars == <<mode, pid, regVars, pollVars, extVars>>
workVars == <<deployVars, workLocals>>
vars == <<scanVars, lockVars, workVars>>

(***************************************************************************)
(* Bounds of the model.                                                    *)
(***************************************************************************)
MaxFiles == 2
MaxCallers == 2
MaxTrace == 3
MaxNow == 2
MaxPrs == 2

Callers == 1..MaxCallers

(***************************************************************************)
(* Python values.                                                          *)
(***************************************************************************)
Absent == [t |-> "absent", v |-> <<>>]
PyNone == [t |-> "none", v |-> <<>>]
PyStr(s) == [t |-> "str", v |-> s]
PyInt(n) == [t |-> "int", v |-> n]
PyList(l) == [t |-> "list", v |-> l]

\* dict.get(key, default) on a field that may be absent
Get(val, default) == IF val.t = "absent" THEN default ELSE val

\* dict.setdefault(key, default)
SetDefault(val, default) == IF val.t = "absent" THEN default ELSE val

\* Python truthiness of a value
Truthy(val) ==
    CASE val.t = "absent" -> FALSE
      [] val.t = "none" -> FALSE
      [] val.t = "int" -> val.v # 0
      [] OTHER -> val.v # <<>>

(***************************************************************************)
(* Strings: code points, lower(), upper(), strip(), "in", startswith, <.   *)
(***************************************************************************)
Code(c) ==
    CASE c = " " -> 32 [] c = "+" -> 43 [] c = "-" -> 45 [] c = "/" -> 47
      [] c = "0" -> 48 [] c = "1" -> 49 [] c = "2" -> 50 [] c = "3" -> 51
      [] c = "9" -> 57
      [] c = "D" -> 68 [] c = "E" -> 69 [] c = "N" -> 78 [] c = "O" -> 79
      [] c = "P" -> 80 [] c = "Q" -> 81 [] c = "T" -> 84 [] c = "U" -> 85
      [] c = "X" -> 88
      [] c = "_" -> 95
      [] c = "a" -> 97 [] c = "c" -> 99 [] c = "d" -> 100 [] c = "e" -> 101
      [] c = "f" -> 102 [] c = "i" -> 105 [] c = "m" -> 109 [] c = "n" -> 110
      [] c = "o" -> 111 [] c = "p" -> 112 [] c = "q" -> 113 [] c = "r" -> 114
      [] c = "t" -> 116 [] c = "u" -> 117 [] c = "v" -> 118 [] c = "w" -> 119
      [] c = "x" -> 120

LowerChar(c) ==
    CASE c = "D" -> "d" [] c = "E" -> "e" [] c = "N" -> "n" [] c = "O" -> "o"
      [] c = "P" -> "p" [] c = "Q" -> "q" [] c = "T" -> "t" [] c = "U" -> "u"
      [] c = "X" -> "x"
      [] OTHER -> c

UpperChar(c) ==
    CASE c = "d" -> "D" [] c = "e" -> "E" [] c = "n" -> "N" [] c = "o" -> "O"
      [] c = "p" -> "P" [] c = "q" -> "Q" [] c = "t" -> "T" [] c = "u" -> "U"
      [] c = "x" -> "X"
      [] OTHER -> c

StrLower(s) == [i \in 1..Len(s) |-> LowerChar(s[i])]
StrUpper(s) == [i \in 1..Len(s) |-> UpperChar(s[i])]

RECURSIVE LStrip(_)
LStrip(s) == IF s # <<>> /\ Head(s) = " " THEN LStrip(Tail(s)) ELSE s

RECURSIVE RStrip(_)
RStrip(s) ==
    IF s # <<>> /\ s[Len(s)] = " " THEN RStrip(SubSeq(s, 1, Len(s) - 1)) ELSE s

Strip(s) == RStrip(LStrip(s))

\* Python: sub in s
Contains(sub, s) ==
    \E i \in 0..(Len(s) - Len(sub)) : SubSeq(s, i + 1, i + Len(sub)) = sub

\* Python: s.startswith(p)
StartsWith(s, p) == Len(p) <= Len(s) /\ SubSeq(s, 1, Len(p)) = p

\* Python: a < b on str (code point order)
RECURSIVE StrLess(_, _)
StrLess(a, b) ==
    IF a = <<>> THEN b # <<>>
    ELSE IF b = <<>> THEN FALSE
    ELSE IF Code(Head(a)) # Code(Head(b)) THEN Code(Head(a)) < Code(Head(b))
    ELSE StrLess(Tail(a), Tail(b))

\* Python: str(v) for the value types that occur in id, status, priority
PyToStr(val) == IF val.t = "str" THEN val.v ELSE <<>>

(***************************************************************************)
(* String constants of the program and of the modelled inputs.             *)
(***************************************************************************)
sEmpty == <<>>
sQueued == <<"q", "u", "e", "u", "e", "d">>
sQueuedCap == <<"Q", "u", "e", "u", "e", "d">>
sInReview == <<"i", "n", "_", "r", "e", "v", "i", "e", "w">>
sDone == <<"d", "o", "n", "e">>
sDoneCap == <<"D", "o", "n", "e">>
sMerged == <<"m", "e", "r", "g", "e", "d">>
sCompleted == <<"c", "o", "m", "p", "l", "e", "t", "e", "d">>
sClosed == <<"c", "l", "o", "s", "e", "d">>
sP0 == <<"P", "0">>
sP1 == <<"P", "1">>
sP2 == <<"P", "2">>
sP3 == <<"P", "3">>
sp1 == <<"p", "1">>
sPX == <<"P", "X">>
sZZZZ == <<"Z", "Z", "Z", "Z">>
sFeature == <<"f", "e", "a", "t", "u", "r", "e", "/">>
sMain == <<"m", "a", "i", "n">>

idT1 == <<"T", "-", "1">>
idT2 == <<"T", "-", "2">>
idT12 == <<"T", "-", "1", "2">>
idT9 == <<"T", "-", "9">>

\* the ids and titles of the task files, by file position
SlotId == <<idT2, idT1, idT12, <<"T", "-", "3">>, <<"T", "-", "0">>>>
SlotTitle == <<<<"a">>, <<"c">>, <<"d">>, <<"e">>, <<"f">>>>

(***************************************************************************)
(* app/scan.py: parse_task_file, load_tasks                                *)
(***************************************************************************)
\* parse_task_file: dict(fm) plus the defaults of the missing keys
parse_task_file(fm) ==
    [fm EXCEPT !.status = SetDefault(fm.status, PyStr(sQueued)),
               !.priority = SetDefault(fm.priority, PyStr(sP2)),
               !.depends_on = SetDefault(fm.depends_on, PyList(<<>>)),
               !.order = SetDefault(fm.order, PyNone)]

\* load_tasks: every tasks/*.md, in sorted file-name order
load_tasks(fs) == [i \in 1..Len(fs) |-> parse_task_file(fs[i])]

(***************************************************************************)
(* app/scan.py: build_task_graph (the lookup), list_eligible               *)
(***************************************************************************)
\* tid = str(t.get("id", "")).strip()
TaskId(t) == Strip(PyToStr(Get(t.id, PyStr(sEmpty))))

\* lookup[tid] = t for every task with a non-empty id; a later task with the
\* same id replaces an earlier one.  0 stands for "not in lookup".
LookupIdx(ts, tid) ==
    LET S == {i \in 1..Len(ts) : TaskId(ts[i]) # sEmpty /\ TaskId(ts[i]) = tid}
    IN  IF S = {} THEN 0 ELSE CHOOSE i \in S : \A j \in S : j <= i

DoneStatuses == {sDone, sMerged, sCompleted, sClosed}

\* one dependency of deps_satisfied's loop: TRUE when the loop goes on
DepOk(ts, dep) ==
    LET dep_id == Strip(dep)
        idx == LookupIdx(ts, dep_id)
    IN  \/ dep_id = sEmpty
        \/ /\ idx # 0
           /\ StrLower(PyToStr(Get(ts[idx].status, PyStr(sEmpty)))) \in DoneStatuses

deps_satisfied(ts, task) ==
    LET deps == IF Truthy(task.depends_on) THEN task.depends_on ELSE PyList(<<>>)
    IN  IF deps.t # "list" THEN TRUE
        ELSE \A k \in 1..Len(deps.v) : DepOk(ts, deps.v[k])

\* mutant: only finished tasks are skipped
StatusIsQueued_NotDone(t) ==
    StrLower(PyToStr(Get(t.status, PyStr(sEmpty)))) \notin DoneStatuses

\* status = str(t.get("status", "")).lower(); status == "queued"
StatusIsQueued(t) == StrLower(PyToStr(Get(t.status, PyStr(sEmpty)))) = sQueued

\* mutant: the id is compared with the whole title
InAnyTitle_Exact(tid, titles) == \E title \in titles : tid = title

\* any(tid in title for title in titles)
InAnyTitle(tid, titles) == \E title \in titles : Contains(tid, title)

\* existing_branches and any(b == prefix[:-1] or b.startswith(prefix) ...)
BranchExists(tid, branches) ==
    LET prefix == sFeature \o tid \o <<"-">>
    IN  /\ branches # {}
        /\ \E b \in branches :
              b = SubSeq(prefix, 1, Len(prefix) - 1) \/ StartsWith(b, prefix)

\* Python int(x) on a str: optional sign, then digits; [ok, v]
IsDigit(c) == Code(c) \in 48..57

RECURSIVE DigitsValue(_, _)
DigitsValue(s, acc) ==
    IF s = <<>> THEN acc ELSE DigitsValue(Tail(s), 10 * acc + (Code(Head(s)) - 48))

IntOfStr(raw) ==
    LET s == Strip(raw)
        signed == s # <<>> /\ Head(s) \in {"+", "-"}
        digits == IF signed THEN Tail(s) ELSE s
        ok == digits # <<>> /\ \A i \in 1..Len(digits) : IsDigit(digits[i])
    IN  IF ~ok THEN PyNone
        ELSE IF signed /\ Head(s) = "-" THEN PyInt(0 - DigitsValue(digits, 0))
        ELSE PyInt(DigitsValue(digits, 0))

\* the normalisation of t["order"] that list_eligible applies to a returned task
NormalizeOrder(t) ==
    [t EXCEPT !.order =
        CASE t.order.t = "int" -> t.order
          [] t.order.t = "str" -> IntOfStr(t.order.v)
          [] OTHER -> PyNone]

\* the body of list_eligible's loop: TRUE when t is appended to elig
IsEligible(ts, titles, branches, t) ==
    /\ StatusIsQueued(t)
    /\ TaskId(t) # sEmpty
    /\ ~InAnyTitle(TaskId(t), titles)
    /\ ~BranchExists(TaskId(t), branches)
    /\ deps_satisfied(ts, t)

RECURSIVE SelectEligible(_, _, _, _)
SelectEligible(ts, titles, branches, i) ==
    IF i > Len(ts) THEN <<>>
    ELSE (IF IsEligible(ts, titles, branches, ts[i])
          THEN <<NormalizeOrder(ts[i])>> ELSE <<>>)
         \o SelectEligible(ts, titles, branches, i + 1)

list_eligible(ts, titles, branches) == SelectEligible(ts, titles, branches, 1)

\* the supplied task dicts after the call: a returned dict is normalised in place
TasksAfterEligible(ts, titles, branches) ==
    [i \in 1..Len(ts) |->
        IF IsEligible(ts, titles, branches, ts[i]) THEN NormalizeOrder(ts[i]) ELSE ts[i]]

(***************************************************************************)
(* app/scan.py: order_tasks                                                *)
(***************************************************************************)
prio_rank(pr) ==
    CASE pr = sP0 -> 0 [] pr = sP1 -> 1 [] pr = sP2 -> 2 [] pr = sP3 -> 3
      [] OTHER -> 99

\* mutant: the order hint is compared before the priority
key_HintBeforeRank(t) ==
    LET pr == StrUpper(PyToStr(Get(t.priority, PyStr(sP3))))
        ord_val == Get(t.order, PyNone)
        is_int == ord_val.t = "int"
    IN  <<IF is_int THEN 0 ELSE 1,
          IF is_int THEN ord_val.v ELSE 0,
          prio_rank(pr),
          PyToStr(Get(t.id, PyStr(sZZZZ)))>>

\* mutant: the key has no id tie-break
key_NoId(t) ==
    LET pr == StrUpper(PyToStr(Get(t.priority, PyStr(sP3))))
        ord_val == Get(t.order, PyNone)
        is_int == ord_val.t = "int"
    IN  <<prio_rank(pr),
          IF is_int THEN 0 ELSE 1,
          IF is_int THEN ord_val.v ELSE 0,
          sEmpty>>

\* key(t) = (pr_rank, ord_rank is None, ord_rank or 0, tid)
key(t) ==
    LET pr == StrUpper(PyToStr(Get(t.priority, PyStr(sP3))))
        ord_val == Get(t.order, PyNone)
        is_int == ord_val.t = "int"
    IN  <<prio_rank(pr),
          IF is_int THEN 0 ELSE 1,
          IF is_int THEN ord_val.v ELSE 0,
          PyToStr(Get(t.id, PyStr(sZZZZ)))>>

\* Python tuple comparison a < b of two keys
KeyLess(a, b) ==
    \/ a[1] < b[1]
    \/ a[1] = b[1] /\ a[2] < b[2]
    \/ a[1] = b[1] /\ a[2] = b[2] /\ a[3] < b[3]
    \/ a[1] = b[1] /\ a[2] = b[2] /\ a[3] = b[3] /\ StrLess(a[4], b[4])

\* sorted(): a stable sort; an element goes after the elements that are not greater
RECURSIVE InsertByKey(_, _)
InsertByKey(s, x) ==
    IF s = <<>> THEN <<x>>
    ELSE IF KeyLess(key(x), key(Head(s))) THEN <<x>> \o s
    ELSE <<Head(s)>> \o InsertByKey(Tail(s), x)

RECURSIVE order_tasks(_)
order_tasks(eligible) ==
    IF eligible = <<>> THEN <<>>
    ELSE InsertByKey(order_tasks(SubSeq(eligible, 1, Len(eligible) - 1)),
                     eligible[Len(eligible)])

(***************************************************************************)
(* app/agents/integrator.py: the status flip of on_merge                   *)
(***************************************************************************)
\* re.subn(r"status:\s*(queued|in_review)\b", "status: done", txt, count=1)
FlipToDone(fm) ==
    IF fm.status.t = "str" /\ fm.status.v \in {sQueued, sInReview}
    THEN [fm EXCEPT !.status = PyStr(sDone)]
    ELSE fm

(***************************************************************************)
(* Inputs of the scan: task files, open titles, branches.                  *)
(***************************************************************************)
TaskFile(i, id, st, pr, deps, ord) ==
    [id |-> id, title |-> PyStr(SlotTitle[i]), status |-> st, priority |-> pr,
     depends_on |-> deps, order |-> ord, path |-> i]

EligStatuses == {PyStr(sQueued), PyStr(sQueuedCap), PyStr(sDone), PyStr(sDoneCap),
                 PyStr(sInReview)}
EligDeps == {Absent, PyList(<<idT1>>), PyList(<<idT9>>), PyStr(idT9)}

\* files that differ in status and depends_on; the first file may lack an id
EligFiles(i) ==
    {TaskFile(i, PyStr(SlotId[i]), st, Absent, deps, Absent) :
        st \in EligStatuses, deps \in EligDeps}
    \cup (IF i = 1 THEN {TaskFile(i, Absent, Absent, Absent, Absent, Absent)} ELSE {})

OrderPriorities == {PyStr(sP0), PyStr(sP1), PyStr(sp1), Absent, PyStr(sP3), PyStr(sPX)}
OrderHints == {Absent, PyInt(0), PyInt(1)}

\* queued files without dependencies that differ in priority and order hint
OrderFiles(i) ==
    {TaskFile(i, PyStr(SlotId[i]), PyStr(sQueued), pr, Absent, ord) :
        pr \in OrderPriorities, ord \in OrderHints}

tT12 == idT12 \o <<" ", "-", " ", "d">>
bT2c == sFeature \o idT2 \o <<"-", "c">>
bT1 == sFeature \o idT1

TitleChoices == {{}, {tT12}}
BranchChoices == {{}, {bT2c}, {bT1, sMain}}

\* the working copies of MaxFiles task files, F[i] being the choices of file i
FileSeqs(F) ==
    {fs \in [1..MaxFiles -> UNION {F[i] : i \in 1..MaxFiles}] :
        \A i \in 1..MaxFiles : fs[i] \in F[i]}

(***************************************************************************)
(* The scan as a state machine: scan_repo's steps, and the status flip     *)
(* that changes the backlog between two scans.                             *)
(***************************************************************************)
InitScanLocals ==
    /\ tasks = <<>>
    /\ elig = <<>>
    /\ ordered = <<>>
    /\ phase = "input"

InitElig ==
    /\ files \in FileSeqs([i \in 1..MaxFiles |-> EligFiles(i)])
    /\ open_pr_titles \in TitleChoices
    /\ existing_branches \in BranchChoices
    /\ InitScanLocals

InitOrder ==
    /\ files \in FileSeqs([i \in 1..MaxFiles |-> OrderFiles(i)])
    /\ open_pr_titles = {}
    /\ existing_branches = {}
    /\ InitScanLocals

LoadTasks ==
    /\ phase = "input"
    /\ tasks' = load_tasks(files)
    /\ phase' = "loaded"
    /\ UNCHANGED <<files, open_pr_titles, existing_branches, elig, ordered, lockVars, workVars>>

ListEligible ==
    /\ phase = "loaded"
    /\ elig' = list_eligible(tasks, open_pr_titles, existing_branches)
    /\ tasks' = TasksAfterEligible(tasks, open_pr_titles, existing_branches)
    /\ phase' = "scanned"
    /\ UNCHANGED <<files, open_pr_titles, existing_branches, ordered, lockVars, workVars>>

OrderTasks ==
    /\ phase = "scanned"
    /\ ordered' = order_tasks(elig)
    /\ phase' = "ordered"
    /\ UNCHANGED <<files, open_pr_titles, existing_branches, tasks, elig, lockVars, workVars>>

MarkDone ==
    /\ phase = "ordered"
    /\ \E i \in 1..Len(files) :
          /\ FlipToDone(files[i]) # files[i]
          /\ files' = [files EXCEPT ![i] = FlipToDone(files[i])]
    /\ tasks' = <<>>
    /\ elig' = <<>>
    /\ ordered' = <<>>
    /\ phase' = "input"
    /\ UNCHANGED <<open_pr_titles, existing_branches, lockVars, workVars>>

(***************************************************************************)
(* app/locks.py: acquire(repo_id, workdir_root, timeout=0) and release,    *)
(* step by step.  A caller is one request or one test call sequence; its   *)
(* identity is os.getpid() of the process that runs it.                    *)
(***************************************************************************)
\* os.getpid() of a caller
PidOf(c) == pid[c]

\* the processes of the callers: every caller after the first one is a thread
\* of the first one's process or runs in a second process; callers are
\* numbered by process
PidChoices == {p \in [Callers -> {1, 2}] : p[1] = 1 /\ \A c \in Callers \ {1} : p[c - 1] <= p[c]}

\* mutant: the file is opened without O_EXCL
CanCreateExclusive_NoExcl(ino) == TRUE

\* os.open(lp, O_CREAT | O_EXCL | O_WRONLY) succeeds iff no file is at the path
CanCreateExclusive(ino) == ino = 0

\* release: content = lp.read_text().strip(); owner_pid = int(content) if content
\* else None; also None when reading raises (the file is gone).  0 is None.
ReadOwnerPid(ino, content) == IF ino = 0 THEN 0 ELSE content[ino]

\* mutant: the pid comparison is inverted
MayUnlink_Inverted(owner, me) == owner = 0 \/ owner # me

\* release: if owner_pid is None or owner_pid == os.getpid(): unlink
MayUnlink(owner, me) == owner = 0 \/ owner = me

\* os.write on the file that c created: the pid, which is lost with the file when
\* the file was unlinked meanwhile and is closed now
WrittenContent(ino, c) == IF ino = c THEN PidOf(c) ELSE 0

\* lp.unlink(): the file's content goes with it, unless its creator still has
\* it open and is about to write
ContentAfterUnlink(ino, content, pcs) ==
    IF ino # 0 /\ pcs[ino] # "acq_created" THEN [content EXCEPT ![ino] = 0] ELSE content

InitLock ==
    /\ lock_ino = 0
    /\ ino_content = [c \in Callers |-> 0]
    /\ pc = [c \in Callers |-> "idle"]
    /\ owner_pid = [c \in Callers |-> 0]
    /\ result = [c \in Callers |-> "none"]
    /\ alone = [c \in Callers |-> TRUE]
    /\ trace = <<>>

\* history: a call of c starts
StartCall(c) ==
    IF \A d \in Callers \ {c} : pc[d] = "idle"
    THEN [alone EXCEPT ![c] = TRUE]
    ELSE [d \in Callers |-> FALSE]

\* history: a call of c completes with result res
Completed(al, c, op, res) ==
    IF ~al[c] THEN <<>>
    ELSE LET e == [op |-> op, caller |-> c, res |-> res]
         IN  IF Len(trace) < MaxTrace THEN Append(trace, e)
             ELSE Append(Tail(trace), e)

\* acquire: os.open; FileExistsError with deadline None returns False
AcquireOpen(c) ==
    /\ pc[c] = "idle"
    /\ IF CanCreateExclusive(lock_ino)
       THEN /\ lock_ino' = c
            /\ ino_content' = [ino_content EXCEPT ![c] = 0]
            /\ pc' = [pc EXCEPT ![c] = "acq_created"]
            /\ alone' = StartCall(c)
            /\ trace' = IF StartCall(c)[c] THEN trace ELSE <<>>
            /\ UNCHANGED result
       ELSE /\ result' = [result EXCEPT ![c] = "false"]
            /\ alone' = StartCall(c)
            /\ trace' = Completed(StartCall(c), c, "acquire", "false")
            /\ UNCHANGED <<lock_ino, ino_content, pc>>
    /\ UNCHANGED <<owner_pid, scanVars, workVars>>

\* acquire: os.write(fd, str(os.getpid())); os.close(fd); return True
AcquireWrite(c) ==
    /\ pc[c] = "acq_created"
    /\ ino_content' = [ino_content EXCEPT ![c] = WrittenContent(lock_ino, c)]
    /\ pc' = [pc EXCEPT ![c] = "idle"]
    /\ result' = [result EXCEPT ![c] = "true"]
    /\ trace' = Completed(alone, c, "acquire", "true")
    /\ UNCHANGED <<lock_ino, owner_pid, alone, scanVars, workVars>>

\* release: if not lp.exists(): return
ReleaseExists(c) ==
    /\ pc[c] = "idle"
    /\ alone' = StartCall(c)
    /\ IF lock_ino = 0
       THEN /\ result' = [result EXCEPT ![c] = "released"]
            /\ trace' = Completed(StartCall(c), c, "release", "released")
            /\ UNCHANGED pc
       ELSE /\ pc' = [pc EXCEPT ![c] = "rel_read"]
            /\ trace' = IF StartCall(c)[c] THEN trace ELSE <<>>
            /\ UNCHANGED result
    /\ UNCHANGED <<lock_ino, ino_content, owner_pid, scanVars, workVars>>

\* release: read the owner pid and decide
ReleaseRead(c) ==
    /\ pc[c] = "rel_read"
    /\ IF MayUnlink(ReadOwnerPid(lock_ino, ino_content), PidOf(c))
       THEN /\ owner_pid' = [owner_pid EXCEPT ![c] = ReadOwnerPid(lock_ino, ino_content)]
            /\ pc' = [pc EXCEPT ![c] = "rel_unlink"]
            /\ UNCHANGED <<result, trace>>
       ELSE /\ owner_pid' = [owner_pid EXCEPT ![c] = 0]
            /\ pc' = [pc EXCEPT ![c] = "idle"]
            /\ result' = [result EXCEPT ![c] = "released"]
            /\ trace' = Completed(alone, c, "release", "released")
    /\ UNCHANGED <<lock_ino, ino_content, alone, scanVars, workVars>>

\* release: lp.unlink(missing_ok=True)
ReleaseUnlink(c) ==
    /\ pc[c] = "rel_unlink"
    /\ lock_ino' = 0
    /\ ino_content' = ContentAfterUnlink(lock_ino, ino_content, pc)
    /\ owner_pid' = [owner_pid EXCEPT ![c] = 0]
    /\ pc' = [pc EXCEPT ![c] = "idle"]
    /\ result' = [result EXCEPT ![c] = "released"]
    /\ trace' = Completed(alone, c, "release", "released")
    /\ UNCHANGED <<alone, scanVars, workVars>>

NextLock ==
    \E c \in Callers :
        \/ AcquireOpen(c)
        \/ AcquireWrite(c)
        \/ ReleaseExists(c)
        \/ ReleaseRead(c)
        \/ ReleaseUnlink(c)

(***************************************************************************)
(* app/locks.py: acquire with timeout > 0.  time.time() is read in ticks   *)
(* of half a retry interval; time passes while the caller sleeps and while *)
(* it is between calls, and the statements of the loop take no time.       *)
(***************************************************************************)
MaxStart == 2
MaxTimeout == 3

\* time.sleep(0.1), in ticks
RetryInterval == 2

Timeouts == 0..MaxTimeout

\* what a step of acquire leaves alone besides the lock file and its locals
timedFrame ==
    <<scanVars, mode, pid, regVars, pollVars, gitVars, workLocals, scanHist, rmwVars, hookHist>>

\* deadline = time.time() + timeout if timeout and timeout > 0 else None; -1 is None
DeadlineOf(timeout, t) == IF timeout # 0 /\ timeout > 0 THEN t + timeout ELSE -1

\* mutant: the deadline is never looked at
Expired_Never(deadline, t) == deadline = -1

\* except FileExistsError: if deadline is None or time.time() >= deadline: return False
Expired(deadline, t) == deadline = -1 \/ t >= deadline

\* acquire(repo_id, workdir_root, timeout): lp, the lock directory and the deadline
TimedStart(c, timeout) ==
    /\ pc[c] = "idle"
    /\ ~timed.active
    /\ clock <= MaxStart
    /\ timed' = [active |-> TRUE, timeout |-> timeout, deadline |-> DeadlineOf(timeout, clock),
                 start |-> clock, attempts |-> 0, slept |-> 0, returned_at |-> 0,
                 res |-> "none"]
    /\ pc' = [pc EXCEPT ![c] = "acq_try"]
    /\ alone' = StartCall(c)
    /\ trace' = IF StartCall(c)[c] THEN trace ELSE <<>>
    /\ UNCHANGED <<lockFile, owner_pid, result, clock, timedFrame>>

\* one turn of the loop: os.open; on FileExistsError return False or go to sleep
TimedTry(c) ==
    /\ pc[c] = "acq_try"
    /\ timed.active
    /\ IF CanCreateExclusive(lock_ino)
       THEN /\ lock_ino' = c
            /\ ino_content' = [ino_content EXCEPT ![c] = 0]
            /\ pc' = [pc EXCEPT ![c] = "acq_created"]
            /\ timed' = [timed EXCEPT !.attempts = @ + 1]
            /\ UNCHANGED <<result, trace>>
       ELSE IF Expired(timed.deadline, clock)
       THEN /\ pc' = [pc EXCEPT ![c] = "idle"]
            /\ result' = [result EXCEPT ![c] = "false"]
            /\ timed' = [timed EXCEPT !.attempts = @ + 1, !.active = FALSE,
                                      !.returned_at = clock, !.res = "false"]
            /\ trace' = Completed(alone, c, "acquire", "false")
            /\ UNCHANGED <<lock_ino, ino_content>>
       ELSE /\ pc' = [pc EXCEPT ![c] = "acq_sleep"]
            /\ timed' = [timed EXCEPT !.attempts = @ + 1]
            /\ UNCHANGED <<lock_ino, ino_content, result, trace>>
    /\ UNCHANGED <<owner_pid, alone, clock, timedFrame>>

\* time.sleep(0.1)
TimedSleep(c) ==
    /\ pc[c] = "acq_sleep"
    /\ timed.active
    /\ clock' = clock + RetryInterval
    /\ timed' = [timed EXCEPT !.slept = @ + 1]
    /\ pc' = [pc EXCEPT ![c] = "acq_try"]
    /\ UNCHANGED <<lockFile, owner_pid, result, alone, trace, timedFrame>>

\* os.write(fd, str(os.getpid())); os.close(fd); return True
TimedWrite(c) ==
    /\ pc[c] = "acq_created"
    /\ timed.active
    /\ ino_content' = [ino_content EXCEPT ![c] = WrittenContent(lock_ino, c)]
    /\ pc' = [pc EXCEPT ![c] = "idle"]
    /\ result' = [result EXCEPT ![c] = "true"]
    /\ timed' = [timed EXCEPT !.active = FALSE, !.returned_at = clock, !.res = "true"]
    /\ trace' = Completed(alone, c, "acquire", "true")
    /\ UNCHANGED <<lock_ino, owner_pid, alone, clock, timedFrame>>

\* time passes between two calls of acquire
Tick ==
    /\ ~timed.active
    /\ clock < MaxStart
    /\ clock' = clock + 1
    /\ UNCHANGED <<timed, lockVars, timedFrame>>

\* the steps of the acquire(timeout) call of caller 1
TimedCall == TimedTry(1) \/ TimedSleep(1) \/ TimedWrite(1)

InitIdleScan ==
    /\ files = <<>>
    /\ open_pr_titles = {}
    /\ existing_branches = {}
    /\ InitScanLocals

InitWorkLocals ==
    /\ rc_mode = [c \in Callers |-> "none"]
    /\ next_min = [c \in Callers |-> <<>>]
    /\ task_full = [c \in Callers |-> <<>>]
    /\ did_scan = [c \in Callers |-> FALSE]
    /\ snap = [c \in Callers |-> <<>>]
    /\ invoked = [c \in Callers |-> <<>>]
    /\ unlinked = [c \in Callers |-> FALSE]

\* no state/<id>.json yet: no ETag, no reviewed heads, no watermark, cycle 0;
\* the host has no pull request
InitPollOther ==
    /\ prs = [p \in 1..MaxPrs |-> [state |-> "none", head |-> "", merged_at |-> 0]]
    /\ open_fresh = FALSE
    /\ closed_fresh = FALSE
    /\ last_seen = 0
    /\ cycle = 0
    /\ last_poll = [os |-> "none", cs |-> "none", rfail |-> 0, ifail |-> 0,
                    reviewed |-> <<>>, integrated |-> <<>>, active |-> FALSE,
                    outcome |-> "none", next_interval |-> 0,
                    orate |-> <<>>, crate |-> <<>>, used |-> <<>>]
    /\ integrated_ever = {}
    /\ interval_call = [called |-> FALSE, remaining |-> -1, reset_epoch |-> -1,
                        active |-> FALSE, raised |-> FALSE, value |-> 0]

InitPollState == reviewed_heads = {} /\ InitPollOther

\* the working clone right after Repo.clone_from: the default branch only,
\* checked out, at the commit of origin; no change request is open
InitGitState ==
    /\ local_head = (sMain :> 0)
    /\ remote_head = (sMain :> 0)
    /\ checked_out = sMain
    /\ n_commits = 0
    /\ open_crs = [cr \in {} |-> 0]
    /\ last_dispatch = [who |-> "none", tid |-> <<>>, outcome |-> "none", events |-> <<>>]

\* no acquire(timeout) call has been made
InitTimedState ==
    /\ clock = 0
    /\ timed = [active |-> FALSE, timeout |-> 0, deadline |-> -1, start |-> 0,
                attempts |-> 0, slept |-> 0, returned_at |-> 0, res |-> "none"]

InitRegOther ==
    /\ registry = <<>>
    /\ now = 0
    /\ last_op = [op |-> "none", did |-> "none", mode |-> "none", sig |-> "none",
                  secret |-> FALSE]
    /\ InitGitState
    /\ InitTimedState
    /\ listed = TRUE
    /\ rmw = [c \in Callers |-> [pc |-> "idle", op |-> <<>>, reg |-> <<>>]]
    /\ expect = [c \in Callers |-> "none"]
    /\ hook_reviewed = {}

InitReg == InitRegOther /\ InitPollState

InitIdleWork ==
    /\ mode = "observe"
    /\ pid \in PidChoices
    /\ InitReg
    /\ InitWorkLocals

InitLockSpec == InitLock /\ InitIdleScan /\ InitIdleWork

SpecLock == InitLockSpec /\ [][NextLock]_vars

\* caller 1 calls acquire(timeout) again and again; caller 2 takes and releases
\* the marker with timeout=0 calls, or keeps it for ever
NextTimed ==
    \/ \E timeout \in Timeouts : TimedStart(1, timeout)
    \/ TimedTry(1)
    \/ TimedSleep(1)
    \/ TimedWrite(1)
    \/ Tick
    \/ AcquireOpen(2) \/ AcquireWrite(2)
    \/ \E c \in {1, 2} : ReleaseExists(c) \/ ReleaseRead(c) \/ ReleaseUnlink(c)

\* caller 2 runs in a second process
InitTimed == InitLockSpec /\ pid = [c \in Callers |-> IF c = 1 THEN 1 ELSE 2]

\* the thread that runs acquire is scheduled: a call in progress takes its next step
SpecTimed == InitTimed /\ [][NextTimed]_vars /\ WF_vars(TimedCall)

NextScan == LoadTasks \/ ListEligible \/ OrderTasks \/ MarkDone

InitEligSpec == InitElig /\ InitLock /\ InitIdleWork
InitOrderSpec == InitOrder /\ InitLock /\ InitIdleWork

SpecElig == InitEligSpec /\ [][NextScan]_vars
SpecOrder == InitOrderSpec /\ [][NextScan]_vars

(***************************************************************************)
(* app/utils.py: safe_slug                                                 *)
(***************************************************************************)
IsAlnum(c) ==
    \/ Code(c) \in 48..57
    \/ Code(c) \in 65..90
    \/ Code(c) \in 97..122

\* "-".join(s.split()): runs of blanks between words become one "-"
RECURSIVE JoinWords(_)
JoinWords(s) ==
    IF s = <<>> THEN <<>>
    ELSE IF Head(s) = " "
         THEN (IF LStrip(s) = <<>> THEN <<>> ELSE <<"-">> \o JoinWords(LStrip(s)))
         ELSE <<Head(s)>> \o JoinWords(Tail(s))

safe_slug(text) ==
    LET kept == [i \in 1..Len(text) |->
                    IF IsAlnum(text[i]) \/ text[i] \in {"-", "_", " "}
                    THEN text[i] ELSE "-"]
    IN  JoinWords(StrLower(Strip(kept)))

(***************************************************************************)
(* app/scan.py: scan_repo; app/agents/developer.py: Developer.work_task    *)
(***************************************************************************)
\* next_task = ordered[0] if ordered else None
NextTask(ord) == IF ord = <<>> THEN <<>> ELSE <<ord[1]>>

\* scan_repo's report["next_task"]: {id, title} of the chosen task, or None
scan_repo(fs, titles, branches) ==
    LET nt == NextTask(order_tasks(list_eligible(load_tasks(fs), titles, branches)))
    IN  IF nt = <<>> THEN <<>> ELSE <<[id |-> nt[1].id, title |-> nt[1].title]>>

\* work_next_endpoint: the first task of the reload whose id equals the chosen id
FindTaskFull(ts, chosen) ==
    LET S == {i \in 1..Len(ts) : ts[i].id = chosen.id}
    IN  IF S = {} THEN <<>> ELSE <<ts[CHOOSE i \in S : \A j \in S : i <= j]>>

\* variant: the title of the change request has to equal the id
HasOpenPr_Exact(tid, titles) == tid \in titles

\* VCS.find_open_pr_for_task: an open change request whose title contains the id
HasOpenPr(tid, titles) == \E title \in titles : Contains(tid, title)

WorkTid(task) == Strip(PyToStr(Get(task.id, PyStr(sEmpty))))
WorkTitle(task) == Strip(PyToStr(Get(task.title, PyStr(sEmpty))))

\* branch = f"feature/{tid}-{safe_slug(title)}"
FeatureBranch(task) == sFeature \o WorkTid(task) \o <<"-">> \o safe_slug(WorkTitle(task))

\* title=f"{tid} - {title}"
PrTitle(task) == WorkTid(task) \o <<" ", "-", " ">> \o WorkTitle(task)

(***************************************************************************)
(* app/main.py: work_next_endpoint, one request per caller, step by step.  *)
(***************************************************************************)
RepoModes == {"observe", "pr", "disabled"}

WorkBacklogs ==
    {<<TaskFile(1, PyStr(idT2), PyStr(sQueued), Absent, PyList(<<idT1>>), Absent),
       TaskFile(2, PyStr(idT1), PyStr(sQueued), PyStr(sP0), Absent, Absent)>>,
     <<TaskFile(1, PyStr(idT2), PyStr(sQueued), PyStr(sP1), Absent, Absent),
       TaskFile(2, PyStr(idT1), PyStr(sQueued), PyStr(sP0), Absent, Absent)>>,
     <<TaskFile(1, PyStr(idT2), PyStr(sInReview), Absent, Absent, Absent),
       TaskFile(2, PyStr(idT1), PyStr(sDone), Absent, Absent, Absent)>>,
     <<TaskFile(1, PyStr(idT2), PyStr(sQueued), Absent, PyStr(idT9), Absent),
       TaskFile(2, PyStr(idT1), PyStr(sDone), Absent, Absent, Absent)>>,
     <<[TaskFile(1, PyStr(idT2), PyStr(sQueued), Absent, Absent, Absent)
           EXCEPT !.title = Absent],
       TaskFile(2, PyStr(idT1), PyStr(sDone), Absent, Absent, Absent)>>}

\* variant: observe mode is treated like the acting mode
IsObserve_Never(m) == FALSE

\* rc.mode == RepoMode.observe
IsObserve(m) == m = "observe"

\* variant: an error leaves the try block without the finally clause
ExitOf_NoFinally(res) == IF res = "error" THEN "idle" ELSE "release"

\* try: ... finally: release_lock(...): every exit of the try block, whatever
\* the outcome res, goes through the release
ExitOf(res) == "release"

InitWork ==
    /\ files \in WorkBacklogs
    /\ open_pr_titles = {}
    /\ existing_branches = {sMain}
    /\ InitScanLocals
    /\ InitLock
    /\ mode \in RepoModes
    /\ pid \in PidChoices
    /\ InitReg
    /\ InitWorkLocals

\* the request of c returns or enters the finally clause: the local variables
\* of the try block are gone
Return(c) ==
    /\ rc_mode' = [rc_mode EXCEPT ![c] = "none"]
    /\ next_min' = [next_min EXCEPT ![c] = <<>>]
    /\ task_full' = [task_full EXCEPT ![c] = <<>>]
    /\ snap' = [snap EXCEPT ![c] = <<>>]
    /\ invoked' = [invoked EXCEPT ![c] = <<>>]

\* the request of c goes on
NoReturn == UNCHANGED <<rc_mode, next_min, task_full, snap, invoked>>

\* rc = get_repo(repo_id); settings = load_settings(); rc.mode == RepoMode.observe ?
WN_Start(c) ==
    /\ pc[c] = "idle"
    /\ rc_mode' = [rc_mode EXCEPT ![c] = mode]
    /\ pc' = [pc EXCEPT ![c] = IF IsObserve(mode) THEN "obs_scan" ELSE "acquire"]
    /\ result' = [result EXCEPT ![c] = "none"]
    /\ next_min' = [next_min EXCEPT ![c] = <<>>]
    /\ task_full' = [task_full EXCEPT ![c] = <<>>]
    /\ did_scan' = [did_scan EXCEPT ![c] = FALSE]
    /\ snap' = [snap EXCEPT ![c] = <<>>]
    /\ invoked' = [invoked EXCEPT ![c] = <<>>]
    /\ unlinked' = [unlinked EXCEPT ![c] = FALSE]
    /\ UNCHANGED <<scanVars, lockFile, owner_pid, alone, trace, deployVars>>

Snapshot == [files |-> files, titles |-> open_pr_titles, branches |-> existing_branches]

\* observe mode: report = scan_repo(...)
WN_ObserveScan(c) ==
    /\ pc[c] = "obs_scan"
    /\ next_min' = [next_min EXCEPT ![c] = scan_repo(files, open_pr_titles, existing_branches)]
    /\ did_scan' = [did_scan EXCEPT ![c] = TRUE]
    /\ snap' = [snap EXCEPT ![c] = <<Snapshot>>]
    /\ pc' = [pc EXCEPT ![c] = "obs_return"]
    /\ UNCHANGED <<scanVars, lockFile, owner_pid, result, alone, trace, deployVars,
                   rc_mode, task_full, invoked, unlinked>>

\* observe mode: return {"mode", "next_task", "message"}
WN_ObserveReturn(c) ==
    /\ pc[c] = "obs_return"
    /\ result' = [result EXCEPT ![c] = "observe"]
    /\ pc' = [pc EXCEPT ![c] = "idle"]
    /\ Return(c)
    /\ UNCHANGED <<scanVars, lockFile, owner_pid, alone, trace, deployVars,
                   did_scan, unlinked>>

\* acquire_lock(repo_id, workdir_root, timeout=0): os.open; 423 when it fails
WN_AcquireOpen(c) ==
    /\ pc[c] = "acquire"
    /\ IF CanCreateExclusive(lock_ino)
       THEN /\ lock_ino' = c
            /\ ino_content' = [ino_content EXCEPT ![c] = 0]
            /\ pc' = [pc EXCEPT ![c] = "acq_created"]
            /\ UNCHANGED result
            /\ NoReturn
       ELSE /\ result' = [result EXCEPT ![c] = "busy"]
            /\ pc' = [pc EXCEPT ![c] = "idle"]
            /\ Return(c)
            /\ UNCHANGED <<lock_ino, ino_content>>
    /\ UNCHANGED <<scanVars, owner_pid, alone, trace, deployVars,
                   did_scan, unlinked>>

\* acquire_lock: os.write(fd, pid); return True
WN_AcquireWrite(c) ==
    /\ pc[c] = "acq_created"
    /\ ino_content' = [ino_content EXCEPT ![c] = WrittenContent(lock_ino, c)]
    /\ pc' = [pc EXCEPT ![c] = "scan"]
    /\ UNCHANGED <<scanVars, lock_ino, owner_pid, result, alone, trace, workVars>>

\* report = scan_repo(...); 204 when there is no next task
WN_Scan(c) ==
    /\ pc[c] = "scan"
    /\ LET nm == scan_repo(files, open_pr_titles, existing_branches)
       IN  /\ next_min' = [next_min EXCEPT ![c] = nm]
           /\ IF nm = <<>>
              THEN /\ result' = [result EXCEPT ![c] = "204"]
                   /\ pc' = [pc EXCEPT ![c] = ExitOf("204")]
              ELSE /\ pc' = [pc EXCEPT ![c] = "reload"]
                   /\ UNCHANGED result
    /\ did_scan' = [did_scan EXCEPT ![c] = TRUE]
    /\ snap' = [snap EXCEPT ![c] = <<Snapshot>>]
    /\ UNCHANGED <<scanVars, lockFile, owner_pid, alone, trace, deployVars, rc_mode,
                   task_full, invoked, unlinked>>

\* scan_repo raises (clone or host failure): the finally clause releases
WN_ScanRaises(c) ==
    /\ pc[c] = "scan"
    /\ result' = [result EXCEPT ![c] = "error"]
    /\ pc' = [pc EXCEPT ![c] = ExitOf("error")]
    /\ UNCHANGED <<scanVars, lockFile, owner_pid, alone, trace, workVars>>

\* tasks = load_tasks(repo_root); task_full = the task of the chosen id; 204 if none
WN_Reload(c) ==
    /\ pc[c] = "reload"
    /\ LET tf == FindTaskFull(load_tasks(files), next_min[c][1])
       IN  /\ task_full' = [task_full EXCEPT ![c] = tf]
           /\ IF tf = <<>>
              THEN /\ result' = [result EXCEPT ![c] = "204"]
                   /\ pc' = [pc EXCEPT ![c] = ExitOf("204")]
              ELSE /\ pc' = [pc EXCEPT ![c] = "work"]
                   /\ UNCHANGED result
    /\ UNCHANGED <<scanVars, lockFile, owner_pid, alone, trace, deployVars, rc_mode,
                   next_min, did_scan, snap, invoked, unlinked>>

\* result = dev.work_task(task_full): the existing change request is returned,
\* or the branch is created and pushed and the change request opened
WN_Work(c) ==
    /\ pc[c] = "work"
    /\ invoked' = [invoked EXCEPT ![c] = <<task_full[c][1], mode>>]
    /\ LET task == task_full[c][1]
       IN  IF WorkTid(task) = sEmpty \/ WorkTitle(task) = sEmpty
           THEN /\ result' = [result EXCEPT ![c] = "error"]
                /\ pc' = [pc EXCEPT ![c] = ExitOf("error")]
                /\ UNCHANGED envVars
           ELSE IF HasOpenPr(WorkTid(task), open_pr_titles)
           THEN /\ result' = [result EXCEPT ![c] = "ok"]
                /\ pc' = [pc EXCEPT ![c] = ExitOf("ok")]
                /\ UNCHANGED envVars
           ELSE /\ result' = [result EXCEPT ![c] = "ok"]
                /\ pc' = [pc EXCEPT ![c] = ExitOf("ok")]
                /\ existing_branches' = existing_branches \cup {FeatureBranch(task)}
                /\ open_pr_titles' = open_pr_titles \cup {PrTitle(task)}
                /\ UNCHANGED files
    /\ UNCHANGED <<scanLocals, lockFile, owner_pid, alone, trace, deployVars, rc_mode,
                   next_min, task_full, did_scan, snap, unlinked>>

\* work_task raises after the branch was created (push or host failure)
WN_WorkRaises(c) ==
    /\ pc[c] = "work"
    /\ invoked' = [invoked EXCEPT ![c] = <<task_full[c][1], mode>>]
    /\ LET task == task_full[c][1]
       IN  /\ WorkTid(task) # sEmpty /\ WorkTitle(task) # sEmpty
           /\ ~HasOpenPr(WorkTid(task), open_pr_titles)
           /\ existing_branches' = existing_branches \cup {FeatureBranch(task)}
    /\ result' = [result EXCEPT ![c] = "error"]
    /\ pc' = [pc EXCEPT ![c] = ExitOf("error")]
    /\ UNCHANGED <<files, open_pr_titles, scanLocals, lockFile, owner_pid, alone, trace,
                   deployVars, rc_mode, next_min, task_full, did_scan, snap, unlinked>>

\* finally: release_lock(...): if not lp.exists(): return.  The variables of
\* the try block are not read from here on.
WN_ReleaseExists(c) ==
    /\ pc[c] = "release"
    /\ IF lock_ino = 0
       THEN pc' = [pc EXCEPT ![c] = "idle"]
       ELSE pc' = [pc EXCEPT ![c] = "rel_read"]
    /\ Return(c)
    /\ UNCHANGED <<scanVars, lockFile, owner_pid, result, alone, trace, deployVars,
                   did_scan, unlinked>>

\* release_lock: read the owner pid and decide
WN_ReleaseRead(c) ==
    /\ pc[c] = "rel_read"
    /\ IF MayUnlink(ReadOwnerPid(lock_ino, ino_content), PidOf(c))
       THEN /\ owner_pid' = [owner_pid EXCEPT ![c] = ReadOwnerPid(lock_ino, ino_content)]
            /\ pc' = [pc EXCEPT ![c] = "rel_unlink"]
       ELSE /\ owner_pid' = [owner_pid EXCEPT ![c] = 0]
            /\ pc' = [pc EXCEPT ![c] = "idle"]
    /\ NoReturn
    /\ UNCHANGED <<scanVars, lockFile, result, alone, trace, deployVars,
                   did_scan, unlinked>>

\* release_lock: lp.unlink(missing_ok=True); the request returns
WN_ReleaseUnlink(c) ==
    /\ pc[c] = "rel_unlink"
    /\ lock_ino' = 0
    /\ ino_content' = ContentAfterUnlink(lock_ino, ino_content, pc)
    /\ owner_pid' = [owner_pid EXCEPT ![c] = 0]
    /\ unlinked' = [unlinked EXCEPT ![c] = unlinked[c] \/ lock_ino # 0]
    /\ pc' = [pc EXCEPT ![c] = "idle"]
    /\ NoReturn
    /\ UNCHANGED <<scanVars, result, alone, trace, deployVars, did_scan>>

\* an operator patch: patch_repo(repo_id, mode=m) stores the new mode
SetMode(m) ==
    /\ m # mode
    /\ mode' = m
    /\ UNCHANGED <<scanVars, lockVars, pid, regVars, pollVars, extVars, workLocals>>

WorkRequest(c) ==
        \/ WN_Start(c)
        \/ WN_ObserveScan(c)
        \/ WN_ObserveReturn(c)
        \/ WN_AcquireOpen(c)
        \/ WN_AcquireWrite(c)
        \/ WN_Scan(c)
        \/ WN_ScanRaises(c)
        \/ WN_Reload(c)
        \/ WN_Work(c)
        \/ WN_WorkRaises(c)
        \/ WN_ReleaseExists(c)
        \/ WN_ReleaseRead(c)
        \/ WN_ReleaseUnlink(c)

NextWork ==
    \/ \E c \in Callers : WorkRequest(c)
    \/ \E m \in RepoModes : SetMode(m)

SpecWork == InitWork /\ [][NextWork]_vars
Spec == SpecWork

(***************************************************************************)
(* Properties of list_eligible (C1 - C4).                                  *)
(***************************************************************************)
Scanned == phase \in {"scanned", "ordered"}

\* the task of file i is among the returned tasks
Returned(i) == \E k \in 1..Len(elig) : elig[k].path = tasks[i].path

\* the ids a record names in depends_on, whatever the form of the value
NamedDeps(t) ==
    CASE t.depends_on.t = "list" ->
            {Strip(t.depends_on.v[k]) : k \in 1..Len(t.depends_on.v)} \ {sEmpty}
      [] t.depends_on.t = "str" -> {Strip(t.depends_on.v)} \ {sEmpty}
      [] OTHER -> {}

\* the ids of the supplied records
KnownIds == {TaskId(tasks[i]) : i \in 1..Len(tasks)} \ {sEmpty}

QueuedNoCase(t) == t.status.t = "str" /\ StrLower(t.status.v) = sQueued

\* some supplied record has this id and a finished status
ResolvesToDone(d) ==
    \E j \in 1..Len(tasks) :
        /\ TaskId(tasks[j]) = d
        /\ tasks[j].status.t = "str"
        /\ StrLower(tasks[j].status.v) \in {sDone, sMerged, sCompleted, sClosed}

TitleCollision(t) == \E title \in open_pr_titles : Contains(TaskId(t), title)

BranchCollision(t) ==
    \E b \in existing_branches :
        \/ b = sFeature \o TaskId(t)
        \/ StartsWith(b, sFeature \o TaskId(t) \o <<"-">>)

\* C1: list_eligible never returns a task whose status, compared
\* case-insensitively, is not "queued".
C1_NonQueuedNeverEligible ==
    Scanned => \A k \in 1..Len(elig) : QueuedNoCase(elig[k])

\* C1 witness: a scan over a backlog that holds a non-queued record which only
\* its status excludes, and that returned another record.
C1_Witness ==
    /\ Scanned
    /\ elig # <<>>
    /\ \E i \in 1..Len(tasks) :
          /\ ~QueuedNoCase(tasks[i])
          /\ tasks[i].depends_on = PyList(<<>>)
          /\ ~TitleCollision(tasks[i]) /\ ~BranchCollision(tasks[i])
          /\ ~Returned(i)

\* C2: list_eligible never returns a task that names, in depends_on, an id that
\* is not the id of any supplied record, whatever form depends_on takes.
C2_UnknownDepNeverEligible ==
    Scanned => \A k \in 1..Len(elig) : NamedDeps(elig[k]) \subseteq KnownIds

\* the backlog of scenario A, before and after T-1 becomes done
ScenarioA(st1) ==
    /\ Len(tasks) = 2
    /\ \E i, j \in 1..2 :
          /\ TaskId(tasks[i]) = idT1 /\ tasks[i].status = PyStr(st1)
          /\ tasks[i].depends_on = PyList(<<>>)
          /\ TaskId(tasks[j]) = idT2 /\ tasks[j].status = PyStr(sQueued)
          /\ tasks[j].depends_on = PyList(<<idT1>>)
    /\ \A i \in 1..2 : ~TitleCollision(tasks[i]) /\ ~BranchCollision(tasks[i])

EligIds == {TaskId(elig[k]) : k \in 1..Len(elig)}

\* C3: a queued task with a non-empty id and no title or branch collision is
\* returned if and only if every id in depends_on resolves to a supplied record
\* whose status is done, merged, completed or closed; for scenario A the
\* eligible set is {T-1}, and {T-2} once T-1 is done.
C3_EligibleIffDepsDone ==
    Scanned =>
        /\ \A i \in 1..Len(tasks) :
              (/\ QueuedNoCase(tasks[i])
               /\ TaskId(tasks[i]) # sEmpty
               /\ ~TitleCollision(tasks[i])
               /\ ~BranchCollision(tasks[i]))
              => (Returned(i) <=> \A d \in NamedDeps(tasks[i]) : ResolvesToDone(d))
        /\ ScenarioA(sQueued) => EligIds = {idT1}
        /\ ScenarioA(sDone) => EligIds = {idT2}

ClaimRank(t) ==
    LET pr == StrUpper(t.priority.v)
    IN  IF pr = sP0 THEN 0 ELSE IF pr = sP1 THEN 1 ELSE IF pr = sP2 THEN 2
        ELSE IF pr = sP3 THEN 3 ELSE 4

HasHint(t) == t.order.t = "int"

\* a comes strictly before b: by rank, then hint (present first, ascending), then id
ClaimBefore(a, b) ==
    \/ ClaimRank(a) < ClaimRank(b)
    \/ /\ ClaimRank(a) = ClaimRank(b)
       /\ \/ HasHint(a) /\ ~HasHint(b)
          \/ HasHint(a) /\ HasHint(b) /\ a.order.v < b.order.v
          \/ /\ HasHint(a) = HasHint(b)
             /\ HasHint(a) => a.order.v = b.order.v
             /\ StrLess(a.id.v, b.id.v)

SameTasks(s1, s2) ==
    /\ Len(s1) = Len(s2)
    /\ {s1[k] : k \in 1..Len(s1)} = {s2[k] : k \in 1..Len(s2)}

\* C5: order_tasks returns the eligible tasks sorted by priority rank, then
\* order hint (present before absent, ascending), then id; a P0 task without a
\* hint precedes a P1 task with hint 0.
C5_SortedByRankHintId ==
    phase = "ordered" =>
        /\ SameTasks(ordered, elig)
        /\ \A i, j \in 1..Len(ordered) :
              i < j => ClaimBefore(ordered[i], ordered[j])
        /\ \A i, j \in 1..Len(ordered) :
              (/\ ordered[i].priority.v = sP0 /\ ~HasHint(ordered[i])
               /\ ordered[j].priority.v = sP1 /\ ordered[j].order = PyInt(0))
              => i < j

\* C5 witness: the ordered list holds a P0 task without a hint and a P1 task
\* with hint 0 that came the other way round in the input.
C5_Witness ==
    /\ phase = "ordered"
    /\ \E i, j \in 1..Len(elig) :
          /\ j < i
          /\ elig[i].priority.v = sP0 /\ ~HasHint(elig[i])
          /\ elig[j].priority.v = sP1 /\ elig[j].order = PyInt(0)

PermSeqs(s) ==
    {[i \in 1..Len(s) |-> s[f[i]]] : f \in Permutations(1..Len(s))}

\* C6: order_tasks returns the same sequence for every permutation of its input.
C6_OrderIndependentOfInput ==
    phase = "ordered" => \A p \in PermSeqs(elig) : order_tasks(p) = ordered

\* C6 witness: two tasks that agree in priority and hint have been ordered.
C6_Witness ==
    /\ phase = "ordered"
    /\ \E i, j \in 1..Len(elig) :
          /\ i # j
          /\ ClaimRank(elig[i]) = ClaimRank(elig[j])
          /\ elig[i].order = elig[j].order

(***************************************************************************)
(* Properties of the lock (C9, C10), under SpecLock: any caller may call   *)
(* acquire and release at any time.                                        *)
(***************************************************************************)
\* C9: acquire(r, timeout=0) called twice without an intervening release returns
\* true then false; after release by the true holder the next acquire returns true.
C9_AcquireTwiceThenRelease ==
    /\ \A k \in 1..(Len(trace) - 1) :
          (/\ trace[k].op = "acquire" /\ trace[k].res = "true"
           /\ trace[k + 1].op = "acquire")
          => trace[k + 1].res = "false"
    /\ \A k \in 1..(Len(trace) - 2) :
          (/\ trace[k].op = "acquire" /\ trace[k].res = "true"
           /\ trace[k + 1].op = "release" /\ trace[k + 1].caller = trace[k].caller
           /\ trace[k + 2].op = "acquire")
          => trace[k + 2].res = "true"

\* C9 witness: with the marker of caller 1 in place and no call in between,
\* acquire by 2 has returned false, 1 has released, and acquire by 2 has
\* returned true.
C9_Witness ==
    /\ Len(trace) = 3
    /\ trace[1] = [op |-> "acquire", caller |-> 2, res |-> "false"]
    /\ trace[2] = [op |-> "release", caller |-> 1, res |-> "released"]
    /\ trace[3] = [op |-> "acquire", caller |-> 2, res |-> "true"]
    /\ lock_ino = 2

\* C10: while the marker that the holder's acquire created exists, a release
\* by a caller of another identity leaves it in place.
C10_ForeignReleaseIsNoOp ==
    [][\A c \in Callers :
          (/\ lock_ino # 0
           /\ PidOf(c) # PidOf(lock_ino)
           /\ (ReleaseExists(c) \/ ReleaseRead(c) \/ ReleaseUnlink(c)))
          => lock_ino' = lock_ino]_vars

(***************************************************************************)
(* Properties of the work-next dispatch (C7, C8), under SpecWork.          *)
(***************************************************************************)
\* the eligibility rules on a scan's snapshot sn with task records ts
EligibleAt(sn, ts, t) ==
    /\ QueuedNoCase(t)
    /\ TaskId(t) # sEmpty
    /\ ~\E title \in sn.titles : Contains(TaskId(t), title)
    /\ ~\E b \in sn.branches :
          b = sFeature \o TaskId(t) \/ StartsWith(b, sFeature \o TaskId(t) \o <<"-">>)
    /\ \A d \in NamedDeps(t) :
          \E j \in 1..Len(ts) :
              /\ TaskId(ts[j]) = d
              /\ StrLower(ts[j].status.v) \in {sDone, sMerged, sCompleted, sClosed}

\* C7: the worker receives exactly the first record of the ordered eligible
\* records of the request's scan; that record is eligible at that scan (queued,
\* every dependency known and finished, no title or branch collision); without
\* an eligible record the worker is not invoked.
C7_WorkerGetsFirstEligible ==
    \A c \in Callers :
        invoked[c] # <<>> =>
            LET sn == snap[c][1]
                ts == load_tasks(sn.files)
                t == invoked[c][1]
            IN  /\ \E i \in 1..Len(ts) : ts[i] = t
                /\ EligibleAt(sn, ts, t)
                /\ \A j \in 1..Len(ts) :
                      (EligibleAt(sn, ts, ts[j]) /\ ts[j] # t) => ClaimBefore(t, ts[j])

Critical == {"acq_created", "scan", "reload", "work", "release", "rel_read", "rel_unlink"}

\* C8: at most one request is between lock acquisition and lock release; a
\* request that found the lock held returned busy without scanning, invoking
\* the worker or removing the marker.
C8_OneDispatchPerRepo ==
    /\ Cardinality({c \in Callers : pc[c] \in Critical}) <= 1
    /\ \A c \in Callers :
          result[c] = "busy" => ~did_scan[c] /\ invoked[c] = <<>> /\ ~unlinked[c]
    /\ \A c \in Callers : pc[c] \in Critical \ {"rel_unlink"} => lock_ino = c

\* C8 witness: one request is at the worker call, holding the marker, and
\* another one has returned busy.
C8_Witness ==
    \E c, d \in Callers :
        /\ pc[c] = "work"
        /\ lock_ino = c
        /\ result[d] = "busy"
        /\ pc[d] = "idle"

(***************************************************************************)
(* Properties of the work-next request and the repository mode (C11 - C14),*)
(* under SpecWork.                                                         *)
(***************************************************************************)
\* the request of c has returned after it had acquired the lock
ReturnedAfterAcquire(c) == pc[c] = "idle" /\ result[c] \in {"ok", "204", "error"}

\* C11: a work-next request that acquired the lock has removed its marker when
\* it returns, whatever the outcome (dispatch, no task, worker failure, an
\* exception of scan or worker); with every request returned no marker is
\* left, so that a new acquire succeeds.
C11_LockReleasedOnEveryPath ==
    /\ \A c \in Callers : ReturnedAfterAcquire(c) => unlinked[c] /\ lock_ino # c
    /\ (\A c \in Callers : pc[c] = "idle") => CanCreateExclusive(lock_ino)

\* C11 witness: a request has returned with an error, and another request has
\* created the marker after that.
C11_Witness ==
    \E c, d \in Callers :
        /\ c # d
        /\ ReturnedAfterAcquire(c) /\ result[c] = "error"
        /\ unlinked[c]
        /\ lock_ino = d /\ pc[d] = "scan"

\* C12: a work-next request that read mode observe returns the next task that
\* scan_repo computes on its snapshot, never creates or removes the lock
\* marker, never calls the worker, and its scan (the step from obs_scan to
\* obs_return) leaves the working copy, the branches, the open change
\* requests and the lock as they are.
C12_ObserveReportsOnly ==
    /\ [](\A c \in Callers :
            (rc_mode[c] = "observe" \/ result[c] = "observe") =>
                /\ pc[c] \in {"idle", "obs_scan", "obs_return"}
                /\ invoked[c] = <<>> /\ ~unlinked[c] /\ lock_ino # c
                /\ pc[c] = "obs_return" =>
                      next_min[c] = scan_repo(snap[c][1].files, snap[c][1].titles,
                                              snap[c][1].branches))
    /\ [][\A c \in Callers : (pc[c] = "obs_scan" /\ pc'[c] = "obs_return") =>
                                 UNCHANGED <<envVars, lockFile>>]_vars

\* C12 witness: an observe request is about to return a next task while another
\* request, started in the acting mode, holds the lock and is at the worker call.
C12_Witness ==
    \E c, d \in Callers :
        /\ rc_mode[c] = "observe" /\ pc[c] = "obs_return"
        /\ next_min[c] # <<>>
        /\ lock_ino = d /\ pc[d] = "work"

\* C13: a work-next request that read mode disabled never calls the worker.
C13_DisabledNeverDispatches ==
    \A c \in Callers : rc_mode[c] = "disabled" => invoked[c] = <<>>

\* C14: when the worker is called, the stored mode is the acting mode, also
\* when the request read the acting mode at its start and an operator patch
\* changed the mode since.
C14_ModeRereadBeforeWorker ==
    \A c \in Callers :
        (rc_mode[c] = "pr" /\ invoked[c] # <<>>) => invoked[c][2] = "pr"

(***************************************************************************)
(* app/registry.py: the persisted registry; app/main.py: create_repo, the  *)
(* patch endpoints and the webhook.  One request runs at a time.           *)
(***************************************************************************)
\* RepoContext.derive_id: f"{owner}_{repo}"
derive_id(owner, repo) == owner \o <<"_">> \o repo

\* the owner/name pairs that requests and webhooks name
RepoNames ==
    {<<<<"a">>, <<"b", "_", "c">>>>, <<<<"a", "_", "b">>, <<"c">>>>, <<<<"x">>, <<"y">>>>}

\* RepoCreate.mode: absent or null ("unset"), or a mode
CreateModes == {"unset"} \cup RepoModes

\* RepoContext.from_partial(...).to_dict(): the fields of a registration; mode
\* defaults to observe, target_subdir to None, webhook_secret to "", and
\* created_at is the time of construction
from_partial(owner, repo, m, t) ==
    [id |-> derive_id(owner, repo), owner |-> owner, repo |-> repo,
     mode |-> IF m = "unset" THEN "observe" ELSE m,
     target_subdir |-> "None", webhook_secret |-> "", created_at |-> t]

\* variant: the lookup by id never finds the entry
IndexOfId_Never(repos, id) == 0

\* next((i for i, r in enumerate(repos) if r.get("id") == id), None); 0 is None
IndexOfId(repos, id) ==
    LET S == {i \in 1..Len(repos) : repos[i].id = id}
    IN  IF S = {} THEN 0 ELSE CHOOSE i \in S : \A j \in S : i <= j

\* upsert_repo: append, or merged = {**repos[idx], **ctx.to_dict()}: every key
\* of the registration replaces the stored one
upsert_repo(repos, data) ==
    IF IndexOfId(repos, data.id) = 0 THEN Append(repos, data)
    ELSE [repos EXCEPT ![IndexOfId(repos, data.id)] = data]

\* the fields a patch may carry: allowed = {mode, target_subdir, webhook_secret}
PatchFields ==
    {[key |-> "mode", value |-> m] : m \in RepoModes}
    \cup {[key |-> "target_subdir", value |-> "svc"],
          [key |-> "webhook_secret", value |-> "s3"]}

\* the fields of any request body: also mode null and a mode that is no RepoMode
PatchFieldsAny ==
    PatchFields \cup {[key |-> "mode", value |-> "None"], [key |-> "mode", value |-> "bogus"]}
CreateModesAny == CreateModes \cup {"bogus"}

\* RepoMode(value) raises ValueError
NoRepoMode(value) == value \notin RepoModes

\* patch_repo_endpoint answers 400 for a mode that is not None and no RepoMode;
\* patch_repo itself converts a str mode with RepoMode(value) before it saves
PatchRejected(f) == f.key = "mode" /\ f.value # "None" /\ NoRepoMode(f.value)

\* patch_repo: updated[key] = value for an allowed key
patch_repo(repos, idx, f) ==
    [repos EXCEPT ![idx] =
        CASE f.key = "mode" -> [@ EXCEPT !.mode = f.value]
          [] f.key = "target_subdir" -> [@ EXCEPT !.target_subdir = f.value]
          [] f.key = "webhook_secret" -> [@ EXCEPT !.webhook_secret = f.value]]

\* POST /repos: upsert_repo(RepoContext.from_partial(...))
CreateRepo(n, m) ==
    /\ now < MaxNow
    /\ IF m # "unset" /\ NoRepoMode(m)
       THEN \* from_partial: RepoMode(mode) raises before upsert_repo is called
            /\ last_op' = [op |-> "create_rejected", did |-> "none", mode |-> "none",
                           sig |-> "none", secret |-> FALSE]
            /\ UNCHANGED <<now, registry>>
       ELSE /\ now' = now + 1
            /\ registry' = upsert_repo(registry, from_partial(n[1], n[2], m, now + 1))
            /\ last_op' = [op |-> "create", did |-> "none", mode |-> "none",
                           sig |-> "none", secret |-> FALSE]
    /\ UNCHANGED <<scanVars, lockVars, mode, pid, pollVars, extVars, workLocals>>

\* PATCH /repos/{id} and POST /repos/{id}/set-mode: patch_repo; KeyError when
\* the id is unknown
PatchRepo(n, f) ==
    LET idx == IndexOfId(registry, derive_id(n[1], n[2]))
    IN  /\ registry' = IF idx = 0 \/ PatchRejected(f) THEN registry
                        ELSE patch_repo(registry, idx, f)
        /\ last_op' = [op |-> IF PatchRejected(f) THEN "patch_rejected" ELSE "patch",
                       did |-> "none", mode |-> "none", sig |-> "none", secret |-> FALSE]
        /\ UNCHANGED <<now, scanVars, lockVars, mode, pid, pollVars, extVars, workLocals>>

WebhookEvents ==
    {[event |-> "pull_request", action |-> "opened", merged |-> FALSE],
     [event |-> "pull_request", action |-> "synchronize", merged |-> FALSE],
     [event |-> "pull_request", action |-> "closed", merged |-> TRUE],
     [event |-> "pull_request", action |-> "closed", merged |-> FALSE],
     [event |-> "push", action |-> "", merged |-> FALSE]}

\* webhook: the collaborator that the event reaches, "none" for no dispatch
HookDispatch(ev) ==
    IF ev.event # "pull_request" THEN "none"
    ELSE IF ev.action \in {"opened", "synchronize"} THEN "review"
    ELSE IF ev.action = "closed" /\ ev.merged THEN "integrate"
    ELSE "none"

\* hmac.new(secret, body, sha256).hexdigest(): a keyed hash, taken as
\* collision-free: two digests are equal only for the same key and message
HexDigest(secret, body) == [key |-> secret, msg |-> body]

\* a payload other than body
OtherBody(body) == CHOOSE e \in WebhookEvents : e # body

\* the X-Hub-Signature-256 header of a delivery: absent, empty, with another
\* prefix, with the digest of another key or of another body, with the
\* digest of the body, and the same with blanks around the digest
SigKinds == {"missing", "empty", "sha1", "wrong_key", "wrong_body", "valid", "padded"}

\* the header as [present, prefix, pad, digest]: the text is prefix, then
\* the digest, surrounded by blanks when pad
SigHeader(kind, secret, body) ==
    [present |-> kind # "missing",
     prefix |-> IF kind \in {"missing", "empty"} THEN ""
                ELSE IF kind = "sha1" THEN "sha1=" ELSE "sha256=",
     pad |-> kind = "padded",
     digest |-> IF kind = "wrong_key" THEN HexDigest("guess", body)
                ELSE IF kind = "wrong_body" THEN HexDigest(secret, OtherBody(body))
                ELSE HexDigest(secret, body)]

\* variant: a header with the sha256= prefix is accepted
verify_signature_PrefixOnly(secret, header, body) ==
    secret = "" \/ (header.present /\ header.prefix = "sha256=")

\* verify_signature: TRUE when it returns, FALSE when it raises 401.
\* provided = sig_header.split("=", 1)[1].strip() is the digest without the blanks.
verify_signature(secret, header, body) ==
    IF secret = "" THEN TRUE
    ELSE IF ~header.present \/ header.prefix # "sha256=" THEN FALSE
    ELSE header.digest = HexDigest(secret, body)

\* POST /webhook for repository.full_name = owner/name: unknown repository ->
\* ignored; verify_signature -> 401 when a secret is stored and the signature
\* is not valid; then Reviewer.review_pull_request or Integrator.on_merge
WebhookOp(n, ev, kind) ==
    LET idx == IndexOfId(registry, derive_id(n[1], n[2]))
        secret == registry[idx].webhook_secret
    IN  IF idx = 0
        THEN [op |-> "webhook", did |-> "ignored", mode |-> "none", sig |-> kind,
              secret |-> FALSE]
        ELSE IF ~verify_signature(secret, SigHeader(kind, secret, ev), ev)
        THEN [op |-> "webhook", did |-> "rejected", mode |-> registry[idx].mode,
              sig |-> kind, secret |-> secret # ""]
        ELSE [op |-> "webhook", did |-> HookDispatch(ev), mode |-> registry[idx].mode,
              sig |-> kind, secret |-> secret # ""]

Webhook(n, ev, kind) ==
    /\ last_op' = WebhookOp(n, ev, kind)
    /\ UNCHANGED <<registry, now, scanVars, lockVars, mode, pid, pollVars, extVars, workLocals>>

\* list_repos: RepoContext.from_dict of every entry, RepoMode(data.get("mode")) included
Loadable(repos) == \A i \in 1..Len(repos) : ~NoRepoMode(repos[i].mode)

\* GET /repos/{id}, the scan and status endpoints, work-next: get_repo reads
\* the registry
ReadRepo(n) ==
    LET idx == IndexOfId(registry, derive_id(n[1], n[2]))
    IN  /\ last_op' = [op |-> "read", did |-> "none",
                       mode |-> IF ~Loadable(registry) THEN "raise:ValueError"
                                ELSE IF idx = 0 THEN "none" ELSE registry[idx].mode,
                       sig |-> "none", secret |-> FALSE]
        /\ UNCHANGED <<registry, now, scanVars, lockVars, mode, pid, pollVars, extVars, workLocals>>

NextReg ==
    \/ \E n \in RepoNames, m \in CreateModes : CreateRepo(n, m)
    \/ \E n \in RepoNames, f \in PatchFields : PatchRepo(n, f)
    \/ \E n \in RepoNames, ev \in WebhookEvents, kind \in {"missing", "valid"} :
          Webhook(n, ev, kind)
    \/ \E n \in RepoNames : ReadRepo(n)

InitRegSpec == InitReg /\ InitIdleScan /\ InitLock /\ mode = "observe" /\ pid = [c \in Callers |-> 1]
                  /\ InitWorkLocals

SpecReg == InitRegSpec /\ [][NextReg]_vars

\* registrations, patches and reads with any request body
NextMode ==
    \/ \E n \in RepoNames, m \in CreateModesAny : CreateRepo(n, m)
    \/ \E n \in RepoNames, f \in PatchFieldsAny : PatchRepo(n, f)
    \/ \E n \in RepoNames : ReadRepo(n)

SpecMode == InitRegSpec /\ [][NextMode]_vars

(***************************************************************************)
(* app/registry.py: upsert_repo and patch_repo as two steps each, the      *)
(* load_registry() at the start and the save_registry(reg) at the end;     *)
(* two requests run in two threads or processes, each for its own          *)
(* repository.                                                             *)
(***************************************************************************)
RmwCallers == {1, 2}

\* the repository of each of the two requests' senders
RmwName(c) == IF c = 1 THEN <<<<"x">>, <<"y">>>> ELSE <<<<"a">>, <<"b">>>>

\* the requests: a registration without a mode or with mode pr, a patch of the mode
RmwOps ==
    {[kind |-> "upsert", arg |-> "unset"], [kind |-> "upsert", arg |-> "pr"],
     [kind |-> "patch", arg |-> "disabled"], [kind |-> "patch", arg |-> "pr"]}

\* reg = load_registry(); repos = reg.get("repos", []); patch_repo raises
\* KeyError here when the id is not in repos
RmwLoad(c, op) ==
    /\ rmw[c].pc = "idle"
    /\ op.kind = "patch" => IndexOfId(registry, derive_id(RmwName(c)[1], RmwName(c)[2])) # 0
    /\ rmw' = [rmw EXCEPT ![c] = [pc |-> "loaded", op |-> op, reg |-> registry]]
    /\ UNCHANGED <<expect, regVars, scanVars, lockVars, mode, pid, pollVars, gitVars,
                   timedVars, scanHist, hookHist, workLocals>>

\* what the request of c makes of the repos it loaded
RmwResult(c) ==
    LET n == RmwName(c)
        repos == rmw[c].reg
    IN  IF rmw[c].op.kind = "upsert"
        THEN upsert_repo(repos, from_partial(n[1], n[2], rmw[c].op.arg, now))
        ELSE patch_repo(repos, IndexOfId(repos, derive_id(n[1], n[2])),
                        [key |-> "mode", value |-> rmw[c].op.arg])

\* reg["repos"] = repos; save_registry(reg); return
RmwSave(c) ==
    /\ rmw[c].pc = "loaded"
    /\ registry' = RmwResult(c)
    /\ rmw' = [rmw EXCEPT ![c] = [pc |-> "idle", op |-> <<>>, reg |-> <<>>]]
    /\ expect' = [expect EXCEPT ![c] =
                     LET n == RmwName(c)
                     IN  RmwResult(c)[IndexOfId(RmwResult(c), derive_id(n[1], n[2]))].mode]
    /\ UNCHANGED <<now, last_op, scanVars, lockVars, mode, pid, pollVars, gitVars,
                   timedVars, scanHist, hookHist, workLocals>>

NextRmw ==
    \/ \E c \in RmwCallers, op \in RmwOps : RmwLoad(c, op)
    \/ \E c \in RmwCallers : RmwSave(c)

SpecRmw == InitRegSpec /\ [][NextRmw]_vars

\* the webhook of one repository, with every kind of signature header
HookRepo == <<<<"x">>, <<"y">>>>

NextHook ==
    \/ \E m \in CreateModes : CreateRepo(HookRepo, m)
    \/ \E f \in PatchFields : PatchRepo(HookRepo, f)
    \/ \E ev \in WebhookEvents, kind \in SigKinds : Webhook(HookRepo, ev, kind)

SpecHook == InitRegSpec /\ [][NextHook]_vars

\* C15: a webhook that reaches the reviewer or the integrator was delivered
\* for a repository whose stored mode is the acting mode; in observe or
\* disabled mode no webhook dispatches.
C15_InboundOnlyInActingMode ==
    (last_op.op = "webhook" /\ last_op.did \in {"review", "integrate"})
        => last_op.mode = "pr"

\* C16: the stored mode of a registered id changes only in a step of the
\* operator's patch request.
C16_ModeChangesOnlyByPatch ==
    [][\A i \in 1..Len(registry) : \A j \in 1..Len(registry') :
          (registry'[j].id = registry[i].id /\ registry'[j].mode # registry[i].mode)
              => last_op'.op = "patch"]_vars

\* C17: no two entries of the registry have the same derived id.
C17_OneEntryPerId ==
    \A i, j \in 1..Len(registry) : registry[i].id = registry[j].id => i = j

\* two registrations of one derived id have left one entry, the one of the
\* second registration
C17_Witness ==
    /\ now = 2 /\ Len(registry) = 1 /\ last_op.op = "create"
    /\ registry[1].created_at = 2
    /\ registry[1].owner = <<"a", "_", "b">>

\* C18: registering an id that is already stored keeps target_subdir,
\* webhook_secret and created_at of the stored entry, and keeps its mode when
\* the request carries no mode.
C18_ReregistrationKeepsFields ==
    [][\A n \in RepoNames, m \in CreateModes :
          LET idx == IndexOfId(registry, derive_id(n[1], n[2]))
          IN  (CreateRepo(n, m) /\ idx # 0) =>
                  /\ registry'[idx].target_subdir = registry[idx].target_subdir
                  /\ registry'[idx].webhook_secret = registry[idx].webhook_secret
                  /\ registry'[idx].created_at = registry[idx].created_at
                  /\ m = "unset" => registry'[idx].mode = registry[idx].mode]_vars

(***************************************************************************)
(* app/poller.py: poll_repo against the host's pull requests.  merged_at   *)
(* is an ISO-8601 UTC string of one format on the host, so that the string *)
(* order of two values is their time order; times are numbered 1, 2, ...   *)
(* and 0 stands for null.                                                  *)
(***************************************************************************)
PrIds == 1..MaxPrs
Shas == {"s1", "s2"}
MergeTimes == {1, 2}

\* _update_reviewed_heads keeps list(list(seen))[-200:]
ReviewedCap == 200

\* the state a host action or a poll leaves alone outside the poller
pollFrame == <<scanVars, lockVars, mode, pid, regVars, extVars, workLocals>>

\* the host: a pull request is opened with head commit h
OpenPr(p, h) ==
    /\ prs[p].state = "none"
    /\ prs' = [prs EXCEPT ![p] = [state |-> "open", head |-> h, merged_at |-> 0]]
    /\ open_fresh' = FALSE
    /\ UNCHANGED <<closed_fresh, reviewed_heads, last_seen, cycle, pollHist, pollFrame>>

\* the host: a push moves the head of an open pull request to h
PushPr(p, h) ==
    /\ prs[p].state = "open" /\ prs[p].head # h
    /\ prs' = [prs EXCEPT ![p].head = h]
    /\ open_fresh' = FALSE
    /\ UNCHANGED <<closed_fresh, reviewed_heads, last_seen, cycle, pollHist, pollFrame>>

\* the host: an open pull request is merged at time t, no earlier than any
\* merge before it (the same second is possible); the head of a closed pull
\* request is not read by the poller and is left out
MergePr(p, t) ==
    /\ prs[p].state = "open"
    /\ \A q \in PrIds : prs[q].merged_at <= t
    /\ prs' = [prs EXCEPT ![p] = [state |-> "closed", head |-> "", merged_at |-> t]]
    /\ open_fresh' = FALSE
    /\ closed_fresh' = FALSE
    /\ UNCHANGED <<reviewed_heads, last_seen, cycle, pollHist, pollFrame>>

\* the host: an open pull request is closed without a merge
ClosePr(p) ==
    /\ prs[p].state = "open"
    /\ prs' = [prs EXCEPT ![p] = [state |-> "closed", head |-> "", merged_at |-> 0]]
    /\ open_fresh' = FALSE
    /\ closed_fresh' = FALSE
    /\ UNCHANGED <<reviewed_heads, last_seen, cycle, pollHist, pollFrame>>

\* the JSON list of a 200 response for state st: the pull request numbers
\* (at most per_page = 10 of them; MaxPrs is below that)
RECURSIVE Listing(_, _)
Listing(st, n) ==
    IF n = 0 THEN <<>>
    ELSE IF prs[n].state = st THEN Append(Listing(st, n - 1), n)
    ELSE Listing(st, n - 1)

\* the loop over the open list: a pull request is skipped when its head sha
\* is empty or in seen_heads (read once before the loop); else it is sent to
\* Reviewer.review_pull_request and its head is appended to to_mark
RECURSIVE ReviewLoop(_, _)
ReviewLoop(list, seen_heads) ==
    IF list = <<>> THEN <<>>
    ELSE LET head_sha == prs[Head(list)].head
         IN  IF head_sha = "" \/ head_sha \in seen_heads
             THEN ReviewLoop(Tail(list), seen_heads)
             ELSE <<head_sha>> \o ReviewLoop(Tail(list), seen_heads)

\* the heads recorded before the model starts, oldest first
HistoryHeads == [i \in 1..ReviewedCap |-> ToString(i)]
OldHeads(n) == {HistoryHeads[i] : i \in 1..n}

\* the position in HistoryHeads of the oldest of the recorded heads in old
FirstOld(old) ==
    CHOOSE i \in 1..ReviewedCap :
        HistoryHeads[i] \in old /\ \A j \in 1..(i - 1) : HistoryHeads[j] \notin old

\* the n oldest of the recorded heads in old
RECURSIVE OldestOf(_, _)
OldestOf(old, n) ==
    IF n = 0 \/ old = {} THEN {}
    ELSE LET h == HistoryHeads[FirstOld(old)]
         IN  {h} \cup OldestOf(old \ {h}, n - 1)

\* variant: the list is stored without the slice
KeptHeads_NoCap(seen) == {seen}

\* _update_reviewed_heads: the lists that list(list(seen))[-200:] can be; the
\* order of a set is not defined, so any ReviewedCap elements may be kept.
\* The heads of HistoryHeads differ in nothing a poll reads, so of the results
\* that differ only in which of them are dropped, the one that drops the
\* oldest is kept.
KeptHeads(seen) ==
    IF Cardinality(seen) <= ReviewedCap THEN {seen}
    ELSE LET k == Cardinality(seen) - ReviewedCap
             fresh == seen \cap Shas
             old == seen \ Shas
         IN  {seen \ (D \cup OldestOf(old, k - Cardinality(D))) :
                 D \in {X \in SUBSET fresh :
                           Cardinality(X) <= k /\ k - Cardinality(X) <= Cardinality(old)}}

\* variant: an entry merged exactly at the watermark is not skipped
SkipMerged_Strict(merged_at, seen) == seen # 0 /\ merged_at < seen

\* if last_seen and merged_at <= last_seen: continue
SkipMerged(merged_at, seen) == seen # 0 /\ merged_at <= seen

\* the loop over the closed list: entries without merged_at and entries at or
\* below last_seen are skipped; the others go to Integrator.on_merge and
\* raise max_seen
RECURSIVE MergeLoop(_, _, _)
MergeLoop(list, seen, max_seen) ==
    IF list = <<>> THEN [integrated |-> <<>>, max_seen |-> max_seen]
    ELSE LET merged_at == prs[Head(list)].merged_at
         IN  IF merged_at = 0 \/ SkipMerged(merged_at, seen)
             THEN MergeLoop(Tail(list), seen, max_seen)
             ELSE LET rest == MergeLoop(Tail(list), seen,
                                        IF max_seen = 0 \/ merged_at > max_seen
                                        THEN merged_at ELSE max_seen)
                  IN  [integrated |-> <<Head(list)>> \o rest.integrated,
                       max_seen |-> rest.max_seen]

\* Optional[int]: None
NoneInt == -1

\* _now_epoch() at the time of the poll
NowEpoch == 1000

\* load_settings(): the fields of Settings and their values with no
\* environment variable set
Settings ==
    [gh_token |-> "", gh_owner |-> "", gh_repo |-> "", project_clone_url |-> "",
     default_branch |-> "main", workdir_root |-> "/tmp/codex-work",
     ollama_base_url |-> "http://aether:11434", llm_planner_model |-> "qwen3:32b",
     llm_taskmaster_model |-> "qwen3:32b", llm_developer_model |-> "qwen3-coder:latest",
     llm_reviewer_model |-> "qwen3:32b", llm_integrator_model |-> "none"]

\* settings.<name>: the value, or AttributeError when Settings has no such field
GetAttr(obj, name) ==
    IF name \in DOMAIN obj THEN [ok |-> TRUE, v |-> obj[name]] ELSE [ok |-> FALSE, v |-> 0]

Max2(a, b) == IF a >= b THEN a ELSE b
Min2(a, b) == IF a <= b THEN a ELSE b

\* if reset_epoch and reset_epoch > now: max(600, min(900, reset_epoch - now));
\* else 600
BackoffWait(reset_epoch, now_epoch) ==
    IF reset_epoch # NoneInt /\ reset_epoch # 0 /\ reset_epoch > now_epoch
    THEN Max2(600, Min2(900, reset_epoch - now_epoch)) ELSE 600

\* compute_next_interval for the settings st: [raised |-> TRUE] stands for the
\* AttributeError of a missing settings field
compute_next_interval(st, remaining, reset_epoch, active, now_epoch) ==
    LET floor == GetAttr(st, "min_remaining_budget")
        normal == GetAttr(st, IF active THEN "poll_interval_active" ELSE "poll_interval_idle")
        Normal == IF normal.ok THEN [raised |-> FALSE, value |-> normal.v]
                  ELSE [raised |-> TRUE, value |-> 0]
    IN  IF remaining = NoneInt THEN Normal
        ELSE IF ~floor.ok THEN [raised |-> TRUE, value |-> 0]
        ELSE IF remaining < floor.v
             THEN [raised |-> FALSE, value |-> BackoffWait(reset_epoch, now_epoch)]
        ELSE Normal

\* the rate-limit headers of the responses of a poll: none, so that no
\* backoff applies (ComputeInterval covers the headers that ask for one)
Rates == {[remaining |-> NoneInt, reset |-> NoneInt]}

\* the outcome of a request: a status (304 only when the stored ETag
\* matches), or "transport" when client.get raises
Statuses(fresh) ==
    IF fresh THEN {"200", "304", "error", "transport"} ELSE {"200", "error", "transport"}

\* variant: a 304 response is processed like a 200 response
IsModified_Any(status) == status \in {"200", "304"}

\* open_resp.status_code == 200 / closed_resp.status_code == 200
IsModified(status) == status = "200"

\* the entries of seq before position k, all of them when k is 0: the
\* collaborator calls that returned before the k-th one raised
ReturnedCalls(seq, k) == IF k = 0 THEN seq ELSE SubSeq(seq, 1, k - 1)

\* to_mark after the loop over the open list of a response with status os
ToMark(os) ==
    IF IsModified(os) THEN ReviewLoop(Listing("open", MaxPrs), reviewed_heads) ELSE <<>>

\* the integration calls and max_seen of the loop over the closed list
Merged(cs) ==
    IF IsModified(cs) THEN MergeLoop(Listing("closed", MaxPrs), last_seen, last_seen)
    ELSE [integrated |-> <<>>, max_seen |-> last_seen]

\* variant: the closed collection is requested in every cycle
ClosedStatuses_EveryCycle(os, rfail) ==
    IF os \in {"200", "304"} /\ rfail = 0 THEN Statuses(closed_fresh) ELSE {"skip"}

\* the closed collection is requested when the open part completed and the
\* stored cycle is 0
ClosedStatuses(os, rfail) ==
    IF os \in {"200", "304"} /\ rfail = 0 /\ cycle = 0 THEN Statuses(closed_fresh)
    ELSE {"skip"}

\* rate = open_rate or closed_rate or {}: a dict is true when it has a key, and
\* _parse_rate_headers returns the keys remaining, reset and etag for every response
RateUsed(open_rate, closed_rate) ==
    IF DOMAIN open_rate # {} THEN open_rate ELSE closed_rate

\* poll_repo, when the open request answers os with rate headers rate, the
\* closed request (made when the cycle is 0) answers cs with rate headers
\* crate, and the rfail-th review call and the ifail-th integration call
\* raise (0: none does)
PollRun(os, cs, rfail, ifail, rate, crate) ==
    /\ os \in Statuses(open_fresh)
    /\ cs \in ClosedStatuses(os, rfail)
    /\ LET to_mark == ToMark(os)
           merged == Merged(cs)
           active == IsModified(os) /\ Listing("open", MaxPrs) # <<>>
           used == IF os = "error" THEN rate ELSE RateUsed(rate, crate)
           interval == compute_next_interval(Settings, used.remaining, used.reset,
                                             active, NowEpoch)
           called == os # "transport" /\ cs # "transport" /\ rfail = 0 /\ ifail = 0
           reviewed == ReturnedCalls(to_mark, rfail)
           integrated == ReturnedCalls(merged.integrated, ifail)
       IN  /\ rfail \in 0..Len(to_mark)
           /\ ifail \in 0..Len(merged.integrated)
           /\ open_fresh' = IF IsModified(os) THEN TRUE ELSE open_fresh
           /\ reviewed_heads' \in
                  IF to_mark = <<>> \/ rfail # 0 THEN {reviewed_heads}
                  ELSE KeptHeads(reviewed_heads \cup {to_mark[i] : i \in 1..Len(to_mark)})
           /\ cycle' = IF os \in {"200", "304"} /\ rfail = 0 THEN (cycle + 1) % 3 ELSE cycle
           /\ closed_fresh' = IF IsModified(cs) THEN TRUE ELSE closed_fresh
           /\ last_seen' = IF ifail = 0 THEN merged.max_seen ELSE last_seen
           /\ last_poll' =
                  [os |-> os, cs |-> cs, rfail |-> rfail, ifail |-> ifail,
                   reviewed |-> reviewed, integrated |-> integrated, active |-> active,
                   outcome |->
                       IF os = "transport" \/ cs = "transport" THEN "raise:transport"
                       ELSE IF rfail # 0 \/ ifail # 0 THEN "raise:collaborator"
                       ELSE IF interval.raised THEN "raise:AttributeError"
                       ELSE IF os = "error" THEN "error"
                       ELSE IF reviewed # <<>> \/ integrated # <<>> THEN "ok"
                       ELSE "idle",
                   next_interval |->
                       IF os = "transport" \/ cs = "transport" \/ rfail # 0 \/ ifail # 0
                          \/ interval.raised
                       THEN 0 ELSE interval.value,
                   orate |-> IF os = "transport" THEN <<>> ELSE <<rate>>,
                   crate |-> IF cs \in {"skip", "transport"} THEN <<>> ELSE <<crate>>,
                   used |-> IF called THEN <<used>> ELSE <<>>]
           /\ integrated_ever' =
                  integrated_ever \cup {integrated[i] : i \in 1..Len(integrated)}
    /\ UNCHANGED <<prs, interval_call, pollFrame>>

\* poll_repo with the responses os and cs, whose rate headers are among RS;
\* the rate headers and the calls that raise are the environment's choice
PollWith(os, cs, RS) ==
    /\ os \in Statuses(open_fresh)
    /\ \E rfail \in 0..Len(ToMark(os)) :
          /\ cs \in ClosedStatuses(os, rfail)
          /\ \E ifail \in 0..Len(Merged(cs).integrated), rate \in RS, crate \in RS :
                PollRun(os, cs, rfail, ifail, rate, crate)

Poll(os, cs) == PollWith(os, cs, Rates)

\* a step of poll_repo: every step of the host changes prs, and poll_repo
\* leaves it alone
PollStep == UNCHANGED prs

NextPoll ==
    \/ \E p \in PrIds, h \in Shas : OpenPr(p, h)
    \/ \E p \in PrIds, h \in Shas : PushPr(p, h)
    \/ \E p \in PrIds, t \in MergeTimes : MergePr(p, t)
    \/ \E p \in PrIds : ClosePr(p)
    \/ \E os, cs \in {"200", "304", "error", "transport", "skip"} : Poll(os, cs)

InitPoll == InitReg /\ InitIdleScan /\ InitLock /\ mode = "observe" /\ pid = [c \in Callers |-> 1]
               /\ InitWorkLocals

SpecPoll == InitPoll /\ [][NextPoll]_vars

\* the repository that is polled and that sends webhooks
DualRepo == <<<<"x">>, <<"y">>>>

\* the host's delivery for an open pull request: X-GitHub-Event: pull_request
\* with action a, whose payload carries the pull request and its head
PrEvent(a) == [event |-> "pull_request", action |-> a, merged |-> FALSE]

\* POST /webhook with a valid signature for pull request p: the handler of
\* Webhook; review_pull_request gets the payload, and state/<id>.json is
\* neither read nor written
WebhookForPr(p, a) ==
    /\ prs[p].state = "open"
    /\ last_op' = WebhookOp(DualRepo, PrEvent(a), "valid")
    /\ hook_reviewed' = IF WebhookOp(DualRepo, PrEvent(a), "valid").did = "review"
                        THEN hook_reviewed \cup {prs[p].head} ELSE hook_reviewed
    /\ UNCHANGED <<registry, now, scanVars, lockVars, mode, pid, pollVars, gitVars,
                   timedVars, scanHist, rmwVars, workLocals>>

\* one repository, registered in mode pr, is polled and sends its webhooks
NextDual ==
    \/ \E m \in {"pr"} : CreateRepo(DualRepo, m)
    \/ \E p \in PrIds, h \in Shas : OpenPr(p, h)
    \/ \E p \in PrIds, h \in Shas : PushPr(p, h)
    \/ \E p \in PrIds, a \in {"opened", "synchronize"} : WebhookForPr(p, a)
    \/ \E os, cs \in {"200", "304", "error", "transport", "skip"} : Poll(os, cs)

SpecDual == InitPoll /\ [][NextDual]_vars

\* rate headers that differ between the two responses of a poll
RateChoices ==
    {[remaining |-> NoneInt, reset |-> NoneInt],
     [remaining |-> 5000, reset |-> NowEpoch + 600],
     [remaining |-> 50, reset |-> NowEpoch + 750]}

NextRate ==
    \/ \E p \in PrIds, h \in Shas : OpenPr(p, h)
    \/ \E os, cs \in {"200", "304", "error", "transport", "skip"} :
          PollWith(os, cs, RateChoices)

SpecRate == InitPoll /\ [][NextRate]_vars

\* state/<id>.json after many polls: one head short of the cap, or at the cap
InitCap ==
    /\ InitRegOther /\ InitPollOther
    /\ reviewed_heads \in {OldHeads(ReviewedCap - 1), OldHeads(ReviewedCap)}
    /\ InitIdleScan /\ InitLock /\ mode = "observe" /\ pid = [c \in Callers |-> 1]
    /\ InitWorkLocals

\* the host opens pull requests and moves their heads; the repository is polled
NextCap ==
    \/ \E p \in PrIds, h \in Shas : OpenPr(p, h)
    \/ \E p \in PrIds, h \in Shas : PushPr(p, h)
    \/ \E os, cs \in {"200", "304", "error", "transport", "skip"} : Poll(os, cs)

SpecCap == InitCap /\ [][NextCap]_vars

\* the rate-limit headers handed to compute_next_interval
Budgets == {NoneInt, 0, 50, 150, 199, 200, 5000}
Resets == {NoneInt, 0, NowEpoch - 100, NowEpoch, NowEpoch + 300, NowEpoch + 600,
           NowEpoch + 750, NowEpoch + 900, NowEpoch + 5000}

\* compute_next_interval(remaining, reset_epoch, active) with the settings of
\* load_settings()
ComputeInterval(remaining, reset_epoch, active) ==
    /\ LET r == compute_next_interval(Settings, remaining, reset_epoch, active, NowEpoch)
       IN  interval_call' = [called |-> TRUE, remaining |-> remaining,
                             reset_epoch |-> reset_epoch, active |-> active,
                             raised |-> r.raised, value |-> r.value]
    /\ UNCHANGED <<hostVars, reviewed_heads, last_seen, cycle, last_poll,
                   integrated_ever, pollFrame>>

NextInterval ==
    \E remaining \in Budgets, reset_epoch \in Resets, active \in BOOLEAN :
        ComputeInterval(remaining, reset_epoch, active)

SpecInterval == InitPoll /\ [][NextInterval]_vars

\* C19: in every poll the heads sent to review are pairwise different, none
\* of them was recorded before the poll, and all of them are recorded after
\* it; so no head commit id is reviewed twice.
C19_HeadReviewedAtMostOnce ==
    [][PollStep =>
              LET d == last_poll'.reviewed
              IN  /\ \A i, j \in 1..Len(d) : d[i] = d[j] => i = j
                  /\ \A i \in 1..Len(d) : d[i] \notin reviewed_heads
                  /\ \A i \in 1..Len(d) : d[i] \in reviewed_heads']_vars

\* the closed pull requests of the host that carry a merge time
MergedOnHost == {p \in PrIds : prs[p].state = "closed" /\ prs[p].merged_at # 0}

C21_NotModifiedChangesNothing ==
    [][PollStep =>
          /\ last_poll'.os = "304" =>
                /\ last_poll'.reviewed = <<>> /\ last_poll'.rfail = 0
                /\ open_fresh' = open_fresh
                /\ reviewed_heads' = reviewed_heads
          /\ last_poll'.cs = "304" =>
                /\ last_poll'.integrated = <<>> /\ last_poll'.ifail = 0
                /\ closed_fresh' = closed_fresh
                /\ last_seen' = last_seen]_vars

\* both requests of the last poll answered 304 while an open pull request
\* with an unrecorded head and a merged one above the watermark exist (an
\* earlier poll stored the validators and then failed in a collaborator)
C21_Witness ==
    /\ last_poll.os = "304" /\ last_poll.cs = "304"
    /\ \E p \in PrIds : prs[p].state = "open" /\ prs[p].head \notin reviewed_heads
    /\ \E p \in PrIds : prs[p].merged_at > last_seen

\* the elements of a sequence
Range(seq) == {seq[i] : i \in 1..Len(seq)}

\* C22: the poll that follows a poll in which a collaborator raised sends to
\* review no head, and to integration no entry, that the failed poll had
\* already sent before the failure.
C22_RetryNeverRepeats ==
    [][PollStep =>
          /\ last_poll.rfail # 0 => Range(last_poll'.reviewed) \cap Range(last_poll.reviewed) = {}
          /\ last_poll.ifail # 0 =>
                Range(last_poll'.integrated) \cap Range(last_poll.integrated) = {}]_vars

\* C23: no poll sends to a collaborator an entry that was sent before, or
\* the same entry twice; and after a poll whose request answered 200 and in
\* which no call raised, every head of the open list has been sent to review
\* (by this poll, or before it when it is a recorded head) and every merged
\* entry of the closed list has been sent to integration.
C23_EveryChangeDispatchedOnce ==
    [][PollStep =>
          /\ \A i, j \in 1..Len(last_poll'.reviewed) :
                last_poll'.reviewed[i] = last_poll'.reviewed[j] => i = j
          /\ Range(last_poll'.reviewed) \cap reviewed_heads = {}
          /\ Range(last_poll'.integrated) \cap integrated_ever = {}
          /\ (last_poll'.os = "200" /\ last_poll'.rfail = 0) =>
                \A p \in PrIds :
                   prs[p].state = "open" =>
                      prs[p].head \in Range(last_poll'.reviewed) \cup reviewed_heads
          /\ (last_poll'.cs = "200" /\ last_poll'.ifail = 0) =>
                MergedOnHost \subseteq integrated_ever']_vars

\* C27: a call of compute_next_interval with a remaining budget below the
\* floor of 200 returns, for either value of the active flag, the reset
\* distance clamped to 600..900, and 600 when the reset is absent or past;
\* with remaining 50 and reset 300 seconds ahead it returns a value in 600..900.
C27_BackoffWindow ==
    (interval_call.called /\ interval_call.remaining # NoneInt
        /\ interval_call.remaining < 200) =>
       /\ ~interval_call.raised
       /\ interval_call.value \in 600..900
       /\ interval_call.value = BackoffWait(interval_call.reset_epoch, NowEpoch)

\* C28: a poll whose requests and collaborator calls all succeed (no backoff
\* applies to a poll of SpecPoll) returns, and the interval it returns is the
\* active one exactly when the host has an open pull request.
C28_ActiveIffOpenEntries ==
    [][(/\ PollStep
        /\ last_poll'.os \in {"200", "304"} /\ last_poll'.cs \in {"200", "304", "skip"}
        /\ last_poll'.rfail = 0 /\ last_poll'.ifail = 0) =>
          /\ last_poll'.outcome \in {"ok", "idle"}
          /\ last_poll'.active = (\E p \in PrIds : prs[p].state = "open")]_vars

\* C29: a poll in which a request fails in transport or is answered with a
\* status other than 200 and 304 returns a result whose status reports the error.
C29_ErrorsReportedInStatus ==
    (last_poll.os \in {"error", "transport"} \/ last_poll.cs \in {"error", "transport"})
       => last_poll.outcome = "error"

(***************************************************************************)
(* app/adapters/repo_git.py: RepoHelper on the single working clone;       *)
(* app/agents/developer.py: Developer.work_task;                           *)
(* app/agents/integrator.py: Integrator.on_merge.                          *)
(* A git state g is [local, remote, cur, n]: the commits of the local and  *)
(* remote branches, the checked-out branch, the newest commit id.          *)
(***************************************************************************)
MaxCommits == 2
MaxCrs == 3

sIntegration == <<"i", "n", "t", "e", "g", "r", "a", "t", "i", "o", "n", "/">>
sMarkDone == <<"-", "m", "a", "r", "k", "-", "d", "o", "n", "e">>
sMarkTaskDone == <<" ", "-", " ", "m", "a", "r", "k", " ", "t", "a", "s", "k", " ",
                   "d", "o", "n", "e">>
sDocs == <<"d", "o", "c", "s">>

\* the task dicts handed to the worker: T-1 "c" and T-12 "d"
DevBacklog ==
    <<TaskFile(2, PyStr(idT1), PyStr(sQueued), Absent, Absent, Absent),
      TaskFile(3, PyStr(idT12), PyStr(sQueued), Absent, Absent, Absent)>>

DevTasks == {load_tasks(DevBacklog)[i] : i \in 1..Len(DevBacklog)}

\* branch = f"integration/{tid}-mark-done"
IntegrationBranch(tid) == sIntegration \o tid \o sMarkDone

\* title=f"{tid} - mark task done"
MarkDoneTitle(tid) == tid \o sMarkTaskDone

\* re.search(r"(T-\d+)", title): the first "T-" followed by digits, with all
\* the digits that follow; <<>> when there is none
TaskIdInTitle(title) ==
    LET starts == {i \in 1..Len(title) :
                      /\ i + 2 <= Len(title)
                      /\ title[i] = "T" /\ title[i + 1] = "-" /\ IsDigit(title[i + 2])}
    IN  IF starts = {} THEN <<>>
        ELSE LET i == CHOOSE k \in starts : \A j \in starts : k <= j
                 last == CHOOSE e \in (i + 2)..Len(title) :
                            /\ \A k \in (i + 2)..e : IsDigit(title[k])
                            /\ (e = Len(title) \/ ~IsDigit(title[e + 1]))
             IN  SubSeq(title, i, last)

\* the titles of the merged pull requests delivered to the integrator
MergedTitles == {PrTitle(load_tasks(DevBacklog)[1]), sDocs}

Git == [local |-> local_head, remote |-> remote_head, cur |-> checked_out, n |-> n_commits]

HasBranch(heads, b) == b \in DOMAIN heads

SetHead(heads, b, c) == (b :> c) @@ heads

\* ensure_local_clone: repo.git.checkout(default_branch).  With local changes
\* that the switch would overwrite the checkout fails, as does checkout -t
\* (the local branch exists), and checkout -B default_branch resets the
\* default branch to the current commit.
ensure_local_clone(g, dirty, conflict) ==
    IF dirty /\ conflict /\ g.local[g.cur] # g.local[sMain]
    THEN [g EXCEPT !.local = SetHead(g.local, sMain, g.local[g.cur]), !.cur = sMain]
    ELSE [g EXCEPT !.cur = sMain]

\* create_branch: repo = self._repo(); checkout -b name, or checkout name when
\* the branch exists
create_branch(g, name) ==
    LET h == ensure_local_clone(g, FALSE, FALSE)
    IN  IF HasBranch(h.local, name)
        THEN [h EXCEPT !.cur = name]
        ELSE [h EXCEPT !.local = SetHead(h.local, name, h.local[h.cur]), !.cur = name]

\* commit_all: repo = self._repo(); add --all; commit when the tree is dirty
commit_all(g, dirty, conflict) ==
    LET h == ensure_local_clone(g, dirty, conflict)
    IN  IF dirty
        THEN [h EXCEPT !.local = SetHead(h.local, h.cur, h.n + 1), !.n = h.n + 1]
        ELSE h

PushResults == {"ok", "non_ff", "error"}

\* the answers of origin to the pushes of one dispatch, in order: accepted at
\* once, accepted at the second, third or fourth push, or never
PushSeqs ==
    {<<"ok", "ok", "ok", "ok">>,
     <<"non_ff", "ok", "ok", "ok">>,
     <<"error", "ok", "ok", "ok">>,
     <<"error", "error", "ok", "ok">>,
     <<"non_ff", "error", "ok", "ok">>,
     <<"non_ff", "non_ff", "ok", "ok">>,
     <<"non_ff", "non_ff", "non_ff", "ok">>,
     <<"non_ff", "non_ff", "non_ff", "non_ff">>}

\* the answers of origin to a dispatch that pushes at most twice
PushPairs == {SubSeq(rs, 1, 2) : rs \in PushSeqs}

\* origin rejects a push as non-fast-forward only when it has the branch at
\* another commit
PushAnswer(g, b, choice) ==
    IF choice = "non_ff" /\ (~HasBranch(g.remote, b) \/ g.remote[b] = g.local[b])
    THEN "ok" ELSE choice

PushEvent(answer) == [kind |-> "push", answer |-> answer]

\* push_branch: repo = self._repo(); checkout branch; push; on GitCommandError
\* one more push with --set-upstream, whose failure propagates
push_branch(g, branch, rs) ==
    LET h == [ensure_local_clone(g, FALSE, FALSE) EXCEPT !.cur = branch]
        a1 == PushAnswer(h, branch, rs[1])
        a2 == PushAnswer(h, branch, rs[2])
        pushed == [h EXCEPT !.remote = SetHead(h.remote, branch, h.local[branch])]
    IN  IF a1 = "ok"
        THEN [g |-> pushed, events |-> <<PushEvent(a1)>>, raised |-> "none"]
        ELSE IF a2 = "ok"
        THEN [g |-> pushed, events |-> <<PushEvent(a1), PushEvent(a2)>>, raised |-> "none"]
        ELSE [g |-> h, events |-> <<PushEvent(a1), PushEvent(a2)>>, raised |-> a2]

RebaseResults == {"replay", "fails"}

\* on_merge after a rejected push: repo = self.repo._repo(); fetch origin
\* branch; rebase origin/branch, every exception swallowed.  The rebase runs
\* on the branch that _repo() has checked out.
FetchRebase(g, branch, rebase) ==
    LET h == ensure_local_clone(g, FALSE, FALSE)
    IN  IF ~HasBranch(h.remote, branch) \/ h.remote[branch] = h.local[h.cur]
           \/ rebase = "fails"
        THEN h
        ELSE [h EXCEPT !.local = SetHead(h.local, h.cur, h.n + 1), !.n = h.n + 1]

CrTitles == {cr.title : cr \in DOMAIN open_crs}

RECURSIVE CountCrs(_)
CountCrs(S) ==
    IF S = {} THEN 0
    ELSE LET cr == CHOOSE x \in S : TRUE IN open_crs[cr] + CountCrs(S \ {cr})

\* one more open change request [head, title]
OpenCr(head, title) ==
    LET cr == [head |-> head, title |-> title]
    IN  (cr :> (IF cr \in DOMAIN open_crs THEN open_crs[cr] + 1 ELSE 1)) @@ open_crs

PrAnswers == {"ok", "422", "error"}

SetGit(g) ==
    /\ local_head' = g.local
    /\ remote_head' = g.remote
    /\ checked_out' = g.cur
    /\ n_commits' = g.n

\* the values work_task derives from the task dict: tid, title, branch and
\* the title of the change request
DevCall ==
    [t \in DevTasks |->
        [tid |-> WorkTid(t), title |-> WorkTitle(t), branch |-> FeatureBranch(t),
         pr_title |-> PrTitle(t)]]

\* the values on_merge derives from the title: tid, branch and the title of
\* the change request
MergeCall ==
    [title \in MergedTitles |->
        [tid |-> TaskIdInTitle(title),
         branch |-> IntegrationBranch(TaskIdInTitle(title)),
         cr_title |-> MarkDoneTitle(TaskIdInTitle(title))]]

\* the inputs of on_merge: a rebase answer matters only when the second push
\* is rejected as non-fast-forward, and a title without id ends the call
MergeInputs ==
    {x \in [title : MergedTitles, flip : BOOLEAN, rs : PushSeqs,
            rebase : RebaseResults, pr : PrAnswers] :
        /\ (x.rs[1] = "ok" \/ x.rs[2] # "non_ff") => x.rebase = "fails"
        /\ MergeCall[x.title].tid = <<>> =>
               (~x.flip /\ x.rs[1] = "ok" /\ x.pr = "ok")}

gitFrame == <<scanVars, lockVars, mode, pid, regVars, pollVars, workLocals, moreVars>>

\* Developer.work_task(t): the open change request whose title contains the
\* id is returned; otherwise branch, edits, commit, push, open_pr
DevWorkTask(t, conflict, rs, pr) ==
    LET call == DevCall[t]
        tid == call.tid
        title == call.title
        branch == call.branch
        g1 == create_branch(ensure_local_clone(Git, FALSE, FALSE), branch)
        g2 == commit_all(g1, TRUE, conflict)
        p == push_branch(g2, branch, rs)
        done(outcome, events) ==
            last_dispatch' = [who |-> "developer", tid |-> tid, outcome |-> outcome,
                              events |-> events]
    IN  /\ IF tid = sEmpty \/ title = sEmpty
           THEN /\ done("error", <<>>)
                /\ UNCHANGED <<local_head, remote_head, checked_out, n_commits, open_crs>>
           ELSE IF HasOpenPr(tid, CrTitles)
           THEN /\ done("existing", <<>>)
                /\ UNCHANGED <<local_head, remote_head, checked_out, n_commits, open_crs>>
           ELSE /\ p.g.n <= MaxCommits
                /\ pr = "ok" => CountCrs(DOMAIN open_crs) < MaxCrs
                /\ SetGit(p.g)
                /\ IF p.raised # "none"
                   THEN /\ done("raise:push", p.events)
                        /\ UNCHANGED open_crs
                   ELSE IF pr = "ok"
                   THEN /\ done("ok", p.events)
                        /\ open_crs' = OpenCr(branch, call.pr_title)
                   ELSE /\ done("raise:open_pr", p.events)
                        /\ UNCHANGED open_crs
        /\ UNCHANGED gitFrame

\* Integrator.on_merge for a merged pull request with the given title
IntOnMerge(title, flip, rs, rebase, pr) ==
    LET call == MergeCall[title]
        tid == call.tid
        branch == call.branch
        g1 == ensure_local_clone(Git, FALSE, FALSE)
        g2 == IF HasBranch(g1.local, branch) THEN create_branch(g1, branch)
              ELSE IF HasBranch(g1.remote, branch)
              THEN [ensure_local_clone(g1, FALSE, FALSE)
                       EXCEPT !.local = SetHead(g1.local, branch, g1.remote[branch]),
                              !.cur = branch]
              ELSE create_branch(g1, branch)
        g3 == ensure_local_clone(g2, FALSE, FALSE)
        g4 == commit_all(g3, flip, FALSE)
        p1 == push_branch(g4, branch, SubSeq(rs, 1, 2))
        retry == p1.raised = "non_ff"
        g5 == FetchRebase(p1.g, branch, rebase)
        p2 == push_branch(g5, branch, SubSeq(rs, 3, 4))
        p == IF retry
             THEN [g |-> p2.g, raised |-> p2.raised,
                   events |-> p1.events
                              \o <<[kind |-> "fetch_rebase", answer |-> "none"]>>
                              \o p2.events]
             ELSE p1
        existing == \E cr \in DOMAIN open_crs : cr.head = branch
        done(outcome, events) ==
            last_dispatch' = [who |-> "integrator", tid |-> tid, outcome |-> outcome,
                              events |-> events]
    IN  /\ IF tid = <<>>
           THEN /\ done("no_id", <<>>)
                /\ UNCHANGED <<local_head, remote_head, checked_out, n_commits, open_crs>>
           ELSE /\ p.g.n <= MaxCommits
                /\ (pr = "ok" /\ ~existing) => CountCrs(DOMAIN open_crs) < MaxCrs
                /\ SetGit(p.g)
                /\ IF p.raised # "none"
                   THEN /\ done("raise:push", p.events)
                        /\ UNCHANGED open_crs
                   ELSE IF existing \/ pr = "422"
                   THEN /\ done("ok", p.events)
                        /\ UNCHANGED open_crs
                   ELSE IF pr = "ok"
                   THEN /\ done("ok", p.events)
                        /\ open_crs' = OpenCr(branch, call.cr_title)
                   ELSE /\ done("raise:open_pr", p.events)
                        /\ UNCHANGED open_crs
        /\ UNCHANGED gitFrame

GitBranches ==
    {sMain, IntegrationBranch(idT1)} \cup {FeatureBranch(t) : t \in DevTasks}

\* the host: somebody else pushes a commit to the work branch b of origin
RemoteCommit(b) ==
    /\ b # sMain
    /\ n_commits < MaxCommits
    /\ remote_head' = SetHead(remote_head, b, n_commits + 1)
    /\ n_commits' = n_commits + 1
    /\ UNCHANGED <<local_head, checked_out, open_crs, last_dispatch, gitFrame>>

NextDispatch ==
    \/ \E t \in DevTasks, conflict \in BOOLEAN, rs \in PushPairs, pr \in {"ok", "error"} :
          DevWorkTask(t, conflict, rs, pr)
    \/ \E x \in MergeInputs : IntOnMerge(x.title, x.flip, x.rs, x.rebase, x.pr)
    \/ \E b \in GitBranches : RemoteCommit(b)

InitDispatch == InitReg /\ InitIdleScan /\ InitLock /\ mode = "pr"
                   /\ pid = [c \in Callers |-> 1] /\ InitWorkLocals

SpecDispatch == InitDispatch /\ [][NextDispatch]_vars

\* the branches a scan sees: list_all_branches, local and remote
AllBranches == DOMAIN local_head \cup DOMAIN remote_head

\* the step is a call of Developer.work_task that did something
DevStep ==
    /\ last_dispatch'.who = "developer"
    /\ (last_dispatch' # last_dispatch \/ local_head' # local_head)

\* the step is a call of a collaborator that did something
CollaboratorStep == last_dispatch' # last_dispatch \/ local_head' # local_head

FeatureBranchesOf(tid) ==
    {b \in AllBranches : StartsWith(b, sFeature \o tid \o <<"-">>)}

C25_DefaultBranchNeverWritten ==
    [][CollaboratorStep =>
          /\ local_head'[sMain] = local_head[sMain]
          /\ remote_head'[sMain] = remote_head[sMain]]_vars

\* C26: in a dispatch whose first push is rejected as non-fast-forward, that
\* push is followed by exactly one fetch-and-rebase and one more push, and
\* the dispatch raises when this second push is rejected too.
C26_OneRebaseOneRetry ==
    LET ev == last_dispatch.events
    IN  (ev # <<>> /\ ev[1] = PushEvent("non_ff")) =>
           /\ Len(ev) = 3
           /\ ev[2].kind = "fetch_rebase"
           /\ ev[3].kind = "push"
           /\ ev[3].answer # "ok" => last_dispatch.outcome = "raise:push"

\* C30: a webhook for a registered repository with a stored secret whose
\* signature header is absent, empty, without the sha256= prefix, or carries
\* the digest of another key or of another body is rejected and reaches no
\* collaborator; a webhook for a registered repository without a secret is
\* never rejected, whatever its signature header.
C30_SignatureCheckedBeforeDispatch ==
    (last_op.op = "webhook" /\ last_op.did # "ignored") =>
       /\ (last_op.secret /\ last_op.sig \notin {"valid", "padded"})
             => last_op.did = "rejected"
       /\ ~last_op.secret => last_op.did # "rejected"

\* a delivery signed for another payload was rejected by a repository with a secret
C30_Witness ==
    /\ last_op.op = "webhook" /\ last_op.secret
    /\ last_op.sig = "wrong_body" /\ last_op.did = "rejected"

(***************************************************************************)
(* C31: acquire always terminates.  With timeout=0 it returns after one    *)
(* creation attempt and without sleeping; with timeout>0 it retries every  *)
(* RetryInterval and has returned at the latest one RetryInterval after    *)
(* the timeout has elapsed, also when the marker is never released.        *)
(***************************************************************************)
TimedBounds ==
    /\ timed.timeout = 0 => /\ timed.slept = 0
                            /\ timed.attempts <= 1
                            /\ (timed.res # "none" => /\ timed.attempts = 1
                                                      /\ timed.returned_at = timed.start)
    /\ timed.timeout > 0 =>
          /\ timed.active => /\ clock = timed.start + timed.slept * RetryInterval
                             /\ clock <= timed.start + timed.timeout + RetryInterval
          /\ timed.res # "none" =>
                timed.returned_at <= timed.start + timed.timeout + RetryInterval
          /\ timed.res = "false" => timed.returned_at >= timed.start + timed.timeout

C31_AcquireTerminates == []TimedBounds /\ (timed.active ~> ~timed.active)

\* a call with the longest timeout has given up on a marker that was held throughout
C31_Witness ==
    /\ ~timed.active
    /\ timed.res = "false"
    /\ timed.timeout = MaxTimeout
    /\ timed.slept >= 2
    /\ lock_ino # 0

(***************************************************************************)
(* app/scan.py: list_eligible called with a repo_helper, as scan_repo      *)
(* calls it: the branch names come from repo_helper.list_all_branches(),   *)
(* and an exception of the listing is swallowed.                           *)
(***************************************************************************)
\* existing_branches = set(); try: existing_branches.update(
\* repo_helper.list_all_branches()) except Exception: pass
ListedBranches(branches, ok) == IF ok THEN branches ELSE {}

\* list_eligible(tasks, open_titles, repo_helper=repo); ok: the listing returns
ListEligibleVia(ok) ==
    /\ phase = "loaded"
    /\ listed' = ok
    /\ elig' = list_eligible(tasks, open_pr_titles, ListedBranches(existing_branches, ok))
    /\ tasks' = TasksAfterEligible(tasks, open_pr_titles,
                                   ListedBranches(existing_branches, ok))
    /\ phase' = "scanned"
    /\ UNCHANGED <<envVars, ordered, lockVars, mode, pid, regVars, pollVars, gitVars,
                   timedVars, rmwVars, hookHist, workLocals>>

\* the order hints of the front matter: none, a number, a quoted number, a word
BranchOrders == {Absent, PyInt(1), PyStr(<<"3">>), PyStr(<<"x">>)}

\* queued files without dependencies
BranchFiles(i) ==
    {TaskFile(i, PyStr(SlotId[i]), PyStr(sQueued), Absent, Absent, ord) :
        ord \in BranchOrders}

\* the branches in use: the default branch alone; with the canonical branch of
\* the first file; with a branch that extends the canonical name; with a
\* feature branch of the same id and another slug; with feature/<id> of the
\* second file
BranchRuleChoices ==
    LET canon == sFeature \o SlotId[1] \o <<"-">> \o safe_slug(SlotTitle[1])
    IN  {{sMain}, {sMain, canon}, {sMain, canon \o <<"-", "2">>},
         {sMain, sFeature \o SlotId[1] \o <<"-", "x">>}, {sMain, sFeature \o SlotId[2]}}

InitBranch ==
    /\ files \in FileSeqs([i \in 1..MaxFiles |-> BranchFiles(i)])
    /\ open_pr_titles = {}
    /\ existing_branches \in BranchRuleChoices
    /\ InitScanLocals

NextBranch ==
    \/ LoadTasks
    \/ \E ok \in BOOLEAN : ListEligibleVia(ok)
    \/ OrderTasks
    \/ MarkDone

InitBranchSpec == InitBranch /\ InitLock /\ InitIdleWork

SpecBranch == InitBranchSpec /\ [][NextBranch]_vars

\* some branch in use is the canonical branch of t or starts with its name
CanonicalBranchInUse(t) ==
    \E b \in existing_branches : b = FeatureBranch(t) \/ StartsWith(b, FeatureBranch(t))

\* C32: a task that passes every other rule of list_eligible is left out if
\* and only if a branch in use is equal to, or starts with, its canonical
\* branch name feature/<id>-<slug>, whether or not the branch listing could
\* be obtained.
C32_BranchRuleIsCanonicalName ==
    Scanned =>
        \A i \in 1..Len(tasks) :
            (/\ QueuedNoCase(tasks[i])
             /\ TaskId(tasks[i]) # sEmpty
             /\ ~TitleCollision(tasks[i])
             /\ \A d \in NamedDeps(tasks[i]) : ResolvesToDone(d))
            => (~Returned(i) <=> CanonicalBranchInUse(tasks[i]))

\* C33: a call of list_eligible leaves the supplied task records, the title
\* set and the branch set as they were.
C33_ListEligibleIsPure ==
    [][phase = "loaded" /\ phase' = "scanned"
           => /\ tasks' = tasks
              /\ open_pr_titles' = open_pr_titles
              /\ existing_branches' = existing_branches]_vars

(***************************************************************************)
(* The retention of the reviewed heads (C34, C35).                         *)
(***************************************************************************)
\* C34: the persisted reviewed-heads collection never holds more than
\* ReviewedCap identifiers.
C34_ReviewedHeadsCapped == Cardinality(reviewed_heads) <= ReviewedCap

\* a poll has recorded a new head while the collection was at the cap
C34_Witness ==
    /\ Cardinality(reviewed_heads) = ReviewedCap
    /\ reviewed_heads \cap Shas # {}
    /\ last_poll.reviewed # <<>>
    /\ last_poll.rfail = 0

\* C35: the heads that a poll reviews and records are in the collection after
\* the poll, and so are the heads recorded most recently before it: what is
\* evicted are the oldest heads.
C35_OldestEvictedFirst ==
    [][PollStep =>
          LET d == last_poll'.reviewed
              evicted == (reviewed_heads \cup {d[i] : i \in 1..Len(d)}) \ reviewed_heads'
          IN  last_poll'.rfail = 0 =>
                  /\ \A i \in 1..Len(d) : d[i] \in reviewed_heads'
                  /\ evicted \subseteq OldHeads(ReviewedCap)
                  /\ evicted = OldestOf(reviewed_heads \ Shas, Cardinality(evicted))]_vars

(***************************************************************************)
(* The round-robin counter of the closed collection (C36).                 *)
(***************************************************************************)
\* the closed collection was requested in the last poll
ClosedQueried(poll) == poll.cs # "skip"

\* C36 as claimed: the stored counter is always 0, 1 or 2, every poll
\* advances it by one modulo 3, and a poll requests the closed collection if
\* and only if the counter it read is 0.
C36_ClosedEveryThirdPoll ==
    /\ [](cycle \in 0..2)
    /\ [][PollStep => /\ cycle' = (cycle + 1) % 3
                      /\ (ClosedQueried(last_poll') <=> cycle = 0)]_vars

\* C36 amended: the stored counter is always 0, 1 or 2.  A poll whose open
\* request answers 200 or 304 and whose review calls all return reads the
\* counter, advances it by one modulo 3 and requests the closed collection if
\* and only if the value it read is 0; any other poll (an error status or a
\* transport failure of the open request, a review call that raises) leaves
\* the counter as it is and does not request the closed collection.
C36_ClosedEveryThirdCompletedOpenPart ==
    /\ [](cycle \in 0..2)
    /\ [][PollStep =>
              LET open_done == last_poll'.os \in {"200", "304"} /\ last_poll'.rfail = 0
              IN  /\ open_done => /\ cycle' = (cycle + 1) % 3
                                  /\ (ClosedQueried(last_poll') <=> cycle = 0)
                  /\ ~open_done => /\ cycle' = cycle
                                   /\ ~ClosedQueried(last_poll')]_vars

\* a poll has read the counter 0, requested the closed collection and stored 1
C36_Witness ==
    /\ last_poll.os \in {"200", "304"}
    /\ last_poll.rfail = 0
    /\ last_poll.cs \in {"200", "304", "error"}
    /\ cycle = 1

(***************************************************************************)
(* The rate headers behind the next interval (C37).                        *)
(***************************************************************************)
\* C37: compute_next_interval is given remaining/reset of the last response
\* the poll received: of the closed-collection response when the closed
\* collection was queried and answered, else of the open-collection response.
C37_IntervalFromLastResponse ==
    [][PollStep =>
          LET poll == last_poll'
          IN  poll.used # <<>> =>
                  poll.used = IF poll.crate # <<>> THEN poll.crate ELSE poll.orate]_vars

(***************************************************************************)
(* The stored modes (C38).                                                 *)
(***************************************************************************)
\* C38: every stored entry has a mode in {observe, pr, disabled}, whatever
\* the registrations and patches were (a patch with mode null or with an
\* unknown mode included), so that the registry can be loaded; a rejected
\* patch leaves the stored registry as it was.
C38_StoredModesAreValid ==
    /\ [](\A i \in 1..Len(registry) : registry[i].mode \in RepoModes)
    /\ [](last_op.op = "read" => last_op.mode # "raise:ValueError")
    /\ [][last_op'.op \in {"patch_rejected", "create_rejected"}
              => registry' = registry]_vars

(***************************************************************************)
(* Concurrent registry requests (C39).                                     *)
(***************************************************************************)
\* the registry holds the repository of c with the mode that the last
\* returned request of c stored
EffectPresent(c) ==
    \E i \in 1..Len(registry) :
        /\ registry[i].id = derive_id(RmwName(c)[1], RmwName(c)[2])
        /\ registry[i].mode = expect[c]

\* C39: when no registry request is in progress, the registration and the
\* mode that each sender's last request stored are in the registry: a
\* request for one repository does not erase what a request for another
\* repository has stored.
C39_ConcurrentMutationsBothKept ==
    (\A c \in RmwCallers : rmw[c].pc = "idle")
        => \A c \in RmwCallers : expect[c] # "none" => EffectPresent(c)

(***************************************************************************)
(* The two inbound paths of a review (C40).                                *)
(***************************************************************************)
\* a step of poll_repo among the steps of NextDual
DualPollStep == UNCHANGED <<prs, now, last_op, hook_reviewed>>

\* C40: a poll does not send to review a head that the webhook handler has
\* sent to review, and the webhook handler does not send to review a head
\* that a poll has reviewed and recorded.
C40_OneReviewAcrossPaths ==
    [][/\ DualPollStep =>
              \A i \in 1..Len(last_poll'.reviewed) :
                  last_poll'.reviewed[i] \notin hook_reviewed
       /\ \A p \in PrIds, a \in {"opened", "synchronize"} :
              (WebhookForPr(p, a) /\ last_op'.did = "review")
                  => prs[p].head \notin reviewed_heads]_vars

====
